---- MODULE Spec2Model ----
(***************************************************************************)
(* Verification model of the clinical-record billing auditor (app.py):    *)
(* the text normalizer, the date helpers, the regex extraction path       *)
(* (procesar_historia_regex and its extractors), the billing summary, the *)
(* PDF text extraction, the calls to Gemini, and main's script runs over  *)
(* one session.                                                            *)
(*                                                                         *)
(* A text is a sequence of characters; a character is a one-element       *)
(* string, or a U+xxxx name for a character that has no ASCII glyph.      *)
(* Python's None is the value None below.                                  *)
(***************************************************************************)
EXTENDS Integers, Sequences, FiniteSets, TLC

VARIABLES
    bloques,        \* the blocks of lines the input document was assembled from
    texto,          \* the text handed to limpiar_texto / procesar_historia_regex
    pasadas,        \* how many times limpiar_texto has been applied to texto
    previo,         \* the value of texto before the last limpiar_texto call
    fase,           \* "entrada" before the call under study, "hecho" after it
    historia,       \* the mapping returned by procesar_historia_regex
    excepcion,      \* the exception that escaped the call, "" when none
    fecha_ingreso,  \* calcular_dias_estancia: first argument
    fecha_egreso,   \* calcular_dias_estancia: second argument
    formato,        \* calcular_dias_estancia: third argument
    dias,           \* calcular_dias_estancia: the returned value
    session_state,  \* st.session_state: the mapping that outlives a script run
    secrets,        \* st.secrets: the deployment's secrets
    widgets,        \* what the user entered for this run: key, file, button
    paso,           \* where main stands in the current script run
    corrida,        \* main's locals in the current script run
    llamadas,       \* the collaborators main has called in the current run
    data,           \* calcular_resumen_facturacion: the argument
    resumen,        \* calcular_resumen_facturacion: the returned value
    resumen_anterior, \* the value returned by the call before the last one
    n_resumen,      \* how many times calcular_resumen_facturacion was called
    fecha_str,      \* formatear_fecha: first argument
    fecha_formateada \* formatear_fecha: the returned value

varsRegex   == <<bloques, texto, pasadas, previo, historia>>
varsDias    == <<fecha_ingreso, fecha_egreso, formato, dias>>
varsSesion  == <<session_state, secrets, widgets, paso, corrida, llamadas>>
varsResumen == <<data, resumen, resumen_anterior, n_resumen>>
varsFecha   == <<fecha_str, fecha_formateada>>

vars == <<varsRegex, varsDias, varsSesion, varsResumen, varsFecha, fase, excepcion>>

(***************************************************************************)
(* Characters and the character classes of Python's str and re.            *)
(***************************************************************************)
None == <<"None">>

LF   == "\n"
CR   == "\r"
TAB  == "\t"
SP   == " "
SOH  == "U+0001"
VT   == "U+000B"
FF   == "U+000C"
FS   == "U+001C"
DEL  == "U+007F"
NEL  == "U+0085"
NBSP == "U+00A0"
LSEP == "U+2028"
E_ACUTE == "U+00E9"
E_ACUTE_UP == "U+00C9"
A_ACUTE_UP == "U+00C1"
I_ACUTE_UP == "U+00CD"
U_ACUTE_UP == "U+00DA"
A_ACUTE == "U+00E1"
I_ACUTE == "U+00ED"
U_ACUTE == "U+00FA"
O_ACUTE == "U+00F3"
O_ACUTE_UP == "U+00D3"
N_TILDE == "U+00F1"
N_TILDE_UP == "U+00D1"

Digits == {"0", "1", "2", "3", "4", "5", "6", "7", "8", "9"}

UpperAZ == {"A", "B", "C", "D", "E", "F", "G", "H", "I", "J", "K", "L", "M",
            "N", "O", "P", "Q", "R", "S", "T", "U", "V", "W", "X", "Y", "Z"}

LowerAZ == {"a", "b", "c", "d", "e", "f", "g", "h", "i", "j", "k", "l", "m",
            "n", "o", "p", "q", "r", "s", "t", "u", "v", "w", "x", "y", "z"}

\* str.isspace / the class \s of a str pattern.
Whitespace == {SP, TAB, LF, CR, VT, FF, FS, NEL, NBSP, LSEP}

\* The line boundaries of str.splitlines.
LineBreaks == {LF, CR, VT, FF, FS, NEL, LSEP}

\* The class [\x00-\x08\x0b\x0c\x0e-\x1f\x7f] of limpiar_texto.
ControlClass == {SOH, VT, FF, FS, DEL}

\* The lower-case and the upper-case form of every cased character of the model.
Parejas ==
    {<<"a", "A">>, <<"b", "B">>, <<"c", "C">>, <<"d", "D">>, <<"e", "E">>, <<"f", "F">>,
     <<"g", "G">>, <<"h", "H">>, <<"i", "I">>, <<"j", "J">>, <<"k", "K">>, <<"l", "L">>,
     <<"m", "M">>, <<"n", "N">>, <<"o", "O">>, <<"p", "P">>, <<"q", "Q">>, <<"r", "R">>,
     <<"s", "S">>, <<"t", "T">>, <<"u", "U">>, <<"v", "V">>, <<"w", "W">>, <<"x", "X">>,
     <<"y", "Y">>, <<"z", "Z">>, <<"U+00E1", "U+00C1">>, <<"U+00E9", "U+00C9">>,
     <<"U+00ED", "U+00CD">>, <<"U+00F3", "U+00D3">>, <<"U+00FA", "U+00DA">>,
     <<"U+00F1", "U+00D1">>}

MinOf(S) == CHOOSE x \in S : \A y \in S : x <= y

(***************************************************************************)
(* Regular expressions: a pattern is a sequence of elements, each either a *)
(* fixed run of one-character classes (a literal string, \d{2}/\d{2}) or a *)
(* quantified character class; an element may open a capture group before  *)
(* it and close one after it.  Matching follows the backtracking order of  *)
(* Python's re: a greedy quantifier takes the longest run that lets the    *)
(* rest match, a lazy one the shortest.                                    *)
(***************************************************************************)
\* inf: no upper limit on the repetition (hi is then unused).
Cls(set, neg, lo, hi, inf, lazy) ==
    [k |-> "cls", set |-> set, neg |-> neg, lo |-> lo, hi |-> hi, inf |-> inf,
     lazy |-> lazy, sets |-> <<>>, ops |-> <<>>, og |-> 0, cg |-> 0, dir |-> ""]
Opt(set)    == Cls(set, FALSE, 0, 1, FALSE, FALSE)
Star(set)   == Cls(set, FALSE, 0, 0, TRUE, FALSE)
Plus(set)   == Cls(set, FALSE, 1, 0, TRUE, FALSE)
PlusLazy(set) == Cls(set, FALSE, 1, 0, TRUE, TRUE)
NotPlus(set)  == Cls(set, TRUE, 1, 0, TRUE, FALSE)
NotPlusLazy(set) == Cls(set, TRUE, 1, 0, TRUE, TRUE)
Rep(set, lo, hi) == Cls(set, FALSE, lo, hi, FALSE, FALSE)
\* One character of each class of sets, in order.
Fix(sets) ==
    [k |-> "fix", set |-> {}, neg |-> FALSE, lo |-> 0, hi |-> 0, inf |-> FALSE,
     lazy |-> FALSE, sets |-> sets, ops |-> <<>>, og |-> 0, cg |-> 0, dir |-> ""]
\* The first of the fixed runs ops that fits (a group of alternatives inside
\* the pattern); dir names what the group captures.
Uno(ops, dir) ==
    [k |-> "alt", set |-> {}, neg |-> FALSE, lo |-> 0, hi |-> 0, inf |-> FALSE,
     lazy |-> FALSE, sets |-> <<>>, ops |-> ops, og |-> 0, cg |-> 0, dir |-> dir]
\* The literal string s, the literal character c, one character of a class.
Str(s)   == Fix([i \in 1..Len(s) |-> {s[i]}])
Lit(c)   == Fix(<<{c}>>)
One(set) == Fix(<<set>>)
\* Capture group g around the element e; opening before e; closing after e.
Grupo(g, e)  == [e EXCEPT !.og = g, !.cg = g]
Abre(g, e)   == [e EXCEPT !.og = g]
Cierra(g, e) == [e EXCEPT !.cg = g]

NoGroups == [g \in 1..5 |-> <<0, 0>>]
NoMatch  == [ok |-> FALSE, ini |-> 0, fin |-> 0, alt |-> 0, grp |-> NoGroups]

\* Under re.IGNORECASE a character is in a class when either of its cases is.
InSet(c, set, icase) ==
    \/ c \in set
    \/ icase /\ \E p \in Parejas : c \in {p[1], p[2]} /\ (p[1] \in set \/ p[2] \in set)

InClass(c, e, icase) == InSet(c, e.set, icase) # e.neg

\* The characters from pos on are one of each class of sets.
FixFits(t, pos, sets, icase) ==
    /\ pos + Len(sets) - 1 <= Len(t)
    /\ \A i \in 1..Len(sets) : InSet(t[pos + i - 1], sets[i], icase)

\* The length of the run from pos to last, given the positions of the run
\* where it stops.
Hasta(pos, last, stops) ==
    IF stops = {} THEN (IF last < pos THEN 0 ELSE last - pos + 1) ELSE MinOf(stops) - pos

\* The longest run of the class of e from pos on that ends at last or before.
Corrida(t, pos, e, icase, last) ==
    Hasta(pos, last, {j \in pos..last : ~InClass(t[j], e, icase)})

\* What element e can take from pos on: the length of a fixed run that fits
\* (-1 when it does not fit), the longest run of a quantified class (at most e.hi).
Alcance(t, pos, e, icase) ==
    IF e.k = "fix" THEN (IF FixFits(t, pos, e.sets, icase) THEN Len(e.sets) ELSE -1)
    ELSE Corrida(t, pos, e, icase,
                 IF e.inf \/ pos + e.hi - 1 > Len(t) THEN Len(t) ELSE pos + e.hi - 1)

\* The least that element e must take.
Minimo(e) == IF e.k = "fix" THEN Len(e.sets) ELSE e.lo

\* The matcher is a backtracking machine.  Its state: the element k to match
\* next at position pos (for a group of alternatives, a is the alternative to
\* try), the end position of every element matched so far (fines), and the
\* stack of the choices that still have another option to try (pila); the
\* machine halts when the match is found (ok) or every option is exhausted.
Arranque(pos) ==
    [k |-> 1, pos |-> pos, a |-> 1, fines |-> <<>>, pila |-> <<>>, halt |-> FALSE,
     ok |-> FALSE]

\* The machine s resumed at the quantifier choice c with m characters taken.
Ajusta(s, c, resto, m) ==
    [s EXCEPT !.k     = c.k + 1,
              !.pos   = c.pos + m,
              !.a     = 1,
              !.fines = Append(SubSeq(s.fines, 1, c.k - 1), c.pos + m),
              !.pila  = IF m = (IF c.lazy THEN c.hi ELSE c.lo) THEN resto
                        ELSE Append(resto, [c EXCEPT !.m = m])]

\* The machine s resumed at the choice c, the top of its stack; resto is the
\* stack below it.
Reanuda(s, c, resto) ==
    IF c.alt
    THEN [s EXCEPT !.k     = c.k,
                   !.pos   = c.pos,
                   !.a     = c.m + 1,
                   !.fines = SubSeq(s.fines, 1, c.k - 1),
                   !.pila  = resto]
    ELSE Ajusta(s, c, resto, IF c.lazy THEN c.m + 1 ELSE c.m - 1)

\* Back to the last choice that has another option to try: one character less
\* for a greedy quantifier, one more for a lazy one, the next alternative for
\* a group of alternatives.
Retrocede(s) ==
    IF s.pila = <<>> THEN [s EXCEPT !.halt = TRUE]
    ELSE Reanuda(s, s.pila[Len(s.pila)], SubSeq(s.pila, 1, Len(s.pila) - 1))

\* One step at a group of alternatives e: alternative a is taken if it fits,
\* else the next one is up.
PasoUno(t, e, icase, s) ==
    IF s.a > Len(e.ops) THEN Retrocede(s)
    ELSE IF ~FixFits(t, s.pos, e.ops[s.a], icase) THEN [s EXCEPT !.a = s.a + 1]
    ELSE [s EXCEPT !.k     = s.k + 1,
                   !.pos   = s.pos + Len(e.ops[s.a]),
                   !.a     = 1,
                   !.fines = Append(s.fines, s.pos + Len(e.ops[s.a])),
                   !.pila  = IF s.a = Len(e.ops) THEN s.pila
                             ELSE Append(s.pila, [k |-> s.k, pos |-> s.pos, m |-> s.a,
                                                  lo |-> 0, hi |-> 0, lazy |-> FALSE,
                                                  alt |-> TRUE])]

\* Element e takes m characters of the run it could take, lo being its least.
Avanza(s, e, run, lo, m) ==
    [s EXCEPT !.k     = s.k + 1,
              !.pos   = s.pos + m,
              !.fines = Append(s.fines, s.pos + m),
              !.pila  = IF run = lo THEN s.pila
                        ELSE Append(s.pila, [k |-> s.k, pos |-> s.pos, m |-> m,
                                             lo |-> lo, hi |-> run,
                                             lazy |-> e.lazy, alt |-> FALSE])]

\* One step at a fixed run or a quantified class e that can take run
\* characters: its preferred length (the longest run if greedy, the shortest
\* if lazy), or the machine backtracks.
PasoCls(s, e, run, lo) ==
    IF run < lo THEN Retrocede(s) ELSE Avanza(s, e, run, lo, IF e.lazy THEN lo ELSE run)

\* One step of the machine.
Paso(t, pat, icase, s) ==
    IF s.halt THEN s
    ELSE IF s.k > Len(pat) THEN [s EXCEPT !.halt = TRUE, !.ok = TRUE]
    ELSE IF pat[s.k].k = "alt" THEN PasoUno(t, pat[s.k], icase, s)
    ELSE PasoCls(s, pat[s.k], Alcance(t, s.pos, pat[s.k], icase), Minimo(pat[s.k]))

\* n steps of the machine, stopping as soon as it halts: the first half of
\* them, and the other half from where those end.
RECURSIVE Corre(_, _, _, _, _)
Sigue(t, pat, icase, h, n) == IF h.halt THEN h ELSE Corre(t, pat, icase, h, n)
Corre(t, pat, icase, s, n) ==
    IF n = 1 THEN Paso(t, pat, icase, s)
    ELSE Sigue(t, pat, icase, Corre(t, pat, icase, s, n \div 2), n - (n \div 2))

\* The machine run until it halts.
RECURSIVE Ejecuta(_, _, _, _)
Otra(t, pat, icase, h) == IF h.halt THEN h ELSE Ejecuta(t, pat, icase, h)
Ejecuta(t, pat, icase, s) == Otra(t, pat, icase, Corre(t, pat, icase, s, 256))

\* The span of capture group g of pat: abre and cierra are the elements that
\* open and close it.
Captura(ini, fines, abre, cierra) ==
    IF abre = {} THEN <<0, 0>>
    ELSE <<IF MinOf(abre) = 1 THEN ini ELSE fines[MinOf(abre) - 1], fines[MinOf(cierra)]>>

\* The span of every capture group of pat, from the end positions of its elements.
Capturas(pat, ini, fines) ==
    [g \in 1..5 |-> Captura(ini, fines, {i \in 1..Len(pat) : pat[i].og = g},
                            {i \in 1..Len(pat) : pat[i].cg = g})]

\* The match that the halted machine h found, or NoMatch.
Hallado(pat, alt, pos, h) ==
    IF h.ok
    THEN [ok |-> TRUE, ini |-> pos, fin |-> h.pos, alt |-> alt,
          grp |-> Capturas(pat, pos, h.fines)]
    ELSE NoMatch

\* re.match of alternative alt of the pattern at pos: ini and fin (exclusive)
\* of the match and the spans of its groups.
MatchAt(t, alts, icase, alt, pos) ==
    Hallado(alts[alt], alt, pos, Ejecuta(t, alts[alt], icase, Arranque(pos)))

\* The text of group g of match r (exclusive end), as match.group(g).
Group(t, r, g) == SubSeq(t, r.grp[g][1], r.grp[g][2] - 1)

\* Whether a match of a pattern whose first element is e can start at pos
\* (an element that may match nothing lets it start anywhere).
Empieza(t, icase, e, pos) ==
    CASE e.k = "fix" -> FixFits(t, pos, e.sets, icase)
      [] e.k = "alt" -> \E a \in 1..Len(e.ops) : FixFits(t, pos, e.ops[a], icase)
      [] OTHER -> e.lo = 0 \/ (pos <= Len(t) /\ InClass(t[pos], e, icase))

CanStart(t, alts, icase, alt, pos) == Empieza(t, icase, alts[alt][1], pos)

\* Every match of the pattern in t, whatever its start and its alternative.
\* A pattern with an alternation at its start is the sequence of its
\* alternatives, each followed by the rest of the pattern.
Matches(t, alts, icase) ==
    {r \in {MatchAt(t, alts, icase, x[1], x[2]) :
               x \in {y \in (1..Len(alts)) \X (1..(Len(t) + 1)) :
                         CanStart(t, alts, icase, y[1], y[2])}} : r.ok}

\* The first of the matches sig: the leftmost, and at one position the one of
\* the first alternative that matches.
Izquierdo(sig) ==
    IF sig = {} THEN NoMatch
    ELSE CHOOSE r \in sig : \A y \in sig : r.ini < y.ini \/ (r.ini = y.ini /\ r.alt <= y.alt)

\* The leftmost of the matches ms that starts at from or later.
Primero(ms, from) == Izquierdo({r \in ms : r.ini >= from})

\* re.search: the leftmost match, NoMatch when there is none.
Search(t, alts, icase) == Primero(Matches(t, alts, icase), 1)

\* The non-overlapping matches among ms, left to right, from position from on.
RECURSIVE Encadena(_, _)
Enlaza(ms, r) ==
    IF ~r.ok THEN <<>>
    ELSE <<r>> \o Encadena(ms, IF r.fin = r.ini THEN r.fin + 1 ELSE r.fin)
Encadena(ms, from) == Enlaza(ms, Primero(ms, from))

\* The matches ms in the order re.finditer yields them.
EnOrden(ms) == IF ms = {} THEN <<>> ELSE Encadena(ms, 1)

\* re.finditer
FindIter(t, alts, icase) == EnOrden(Matches(t, alts, icase))

\* re.sub(pat, repl, t): every match of FindIter replaced by repl.
RECURSIVE SubFrom(_, _, _, _, _)
SubFrom(t, ms, repl, k, from) ==
    IF k > Len(ms) THEN SubSeq(t, from, Len(t))
    ELSE SubSeq(t, from, ms[k].ini - 1) \o repl \o SubFrom(t, ms, repl, k + 1, ms[k].fin)

Reemplaza(t, ms, repl) == IF ms = <<>> THEN t ELSE SubFrom(t, ms, repl, 1, 1)

ReSub(alts, repl, t) == Reemplaza(t, FindIter(t, alts, FALSE), repl)

(***************************************************************************)
(* str methods.                                                            *)
(***************************************************************************)
\* str.strip(): leading and trailing whitespace removed.
Strip(s) ==
    IF s = <<>> THEN <<>>
    ELSE LET n     == Len(s)
             keep  == {i \in 1..n : s[i] \notin Whitespace}
             atras == {i \in 1..n : s[n + 1 - i] \notin Whitespace}
         IN  IF keep = {} THEN <<>> ELSE SubSeq(s, MinOf(keep), n + 1 - MinOf(atras))

\* The elements of a set of numbers in increasing order.
Ordena(S) == [j \in 1..Cardinality(S) |-> CHOOSE x \in S : Cardinality({y \in S : y < x}) = j - 1]

\* str.splitlines(): the lines of s without their terminators; "\r\n" is one
\* terminator and a trailing terminator opens no further line.
SplitLines(s) ==
    IF s = <<>> THEN <<>>
    ELSE LET n     == Len(s)
             \* where a terminator starts: a line break that is not the "\n" of a "\r\n"
             brk   == Ordena({i \in 1..n : /\ s[i] \in LineBreaks
                                           /\ ~(s[i] = LF /\ i > 1 /\ s[i - 1] = CR)})
             \* the first position after the terminator that starts at b
             Tras(b) == IF s[b] = CR /\ b < n /\ s[b + 1] = LF THEN b + 2 ELSE b + 1
             Desde(j) == IF j = 1 THEN 1 ELSE Tras(brk[j - 1])
             cola  == IF Desde(Len(brk) + 1) <= n THEN 1 ELSE 0
         IN  [j \in 1..(Len(brk) + cola) |->
                 SubSeq(s, Desde(j), IF j <= Len(brk) THEN brk[j] - 1 ELSE n)]

\* sep.join(parts[i..j])
RECURSIVE JoinRange(_, _, _, _)
JoinRange(sep, parts, i, j) ==
    IF i = j THEN parts[i]
    ELSE LET mid == (i + j) \div 2
         IN  JoinRange(sep, parts, i, mid) \o sep \o JoinRange(sep, parts, mid + 1, j)

\* sep.join(parts)
Join(sep, parts) == IF parts = <<>> THEN <<>> ELSE JoinRange(sep, parts, 1, Len(parts))

(***************************************************************************)
(* limpiar_texto                                                           *)
(***************************************************************************)
\* r'\n\s*\n'
PatronSaltos == << <<Lit(LF), Star(Whitespace), Lit(LF)>> >>

\* '\n'.join(line.strip() for line in lineas)
Recorta(lineas) == Join(<<LF>>, [i \in 1..Len(lineas) |-> Strip(lineas[i])])

limpiar_texto(t) ==
    IF t = None \/ t = <<>> THEN <<>>
    ELSE Strip(Recorta(SplitLines(ReSub(PatronSaltos, <<LF>>,
                                        SelectSeq(t, LAMBDA c : c \notin ControlClass)))))

(***************************************************************************)
(* datetime.strptime and calcular_dias_estancia                            *)
(***************************************************************************)
DigitVal == [c \in Digits |->
    CASE c = "0" -> 0 [] c = "1" -> 1 [] c = "2" -> 2 [] c = "3" -> 3 [] c = "4" -> 4
      [] c = "5" -> 5 [] c = "6" -> 6 [] c = "7" -> 7 [] c = "8" -> 8 [] c = "9" -> 9]

D09 == Digits
D19 == Digits \ {"0"}

\* The regular expression of each directive (TimeRE of _strptime): its
\* alternatives in order, each a sequence of character sets.
DirectiveAlts(dir) ==
    CASE dir = "d" -> << <<{"3"}, {"0", "1"}>>, <<{"1", "2"}, D09>>, <<{"0"}, D19>>,
                         <<D19>>, <<{SP}, D19>> >>
      [] dir = "m" -> << <<{"1"}, {"0", "1", "2"}>>, <<{"0"}, D19>>, <<D19>> >>
      [] dir = "H" -> << <<{"2"}, {"0", "1", "2", "3"}>>, <<{"0", "1"}, D09>>, <<D09>> >>
      [] dir = "M" -> << <<{"0", "1", "2", "3", "4", "5"}, D09>>, <<D09>> >>
      [] dir = "Y" -> << <<D09, D09, D09, D09>> >>
      [] OTHER    -> << >>

\* int() of the characters a directive matched (a leading space counts for nothing).
RECURSIVE NumVal(_)
NumVal(ds) ==
    CASE Len(ds) = 0 -> 0
      [] Len(ds) = 1 -> IF ds[1] \in Digits THEN DigitVal[ds[1]] ELSE 0
      [] OTHER -> LET h == Len(ds) \div 2
                  IN  NumVal(SubSeq(ds, 1, h)) * 10 ^ (Len(ds) - h)
                        + NumVal(SubSeq(ds, h + 1, Len(ds)))

\* The regular expression strptime compiles from the format: a directive is
\* the group of its alternatives, a run of whitespace is \s+, any other
\* character stands for itself.
Nada == [Cls({}, FALSE, 0, 0, FALSE, FALSE) EXCEPT !.k = "nada"]
PatronFormato(fmt) ==
    SelectSeq([f \in 1..Len(fmt) |->
                  CASE f > 1 /\ fmt[f - 1] = "%" -> Nada
                    [] fmt[f] = "%" /\ f < Len(fmt) -> Uno(DirectiveAlts(fmt[f + 1]), fmt[f + 1])
                    [] fmt[f] \in Whitespace ->
                         IF f > 1 /\ fmt[f - 1] \in Whitespace THEN Nada ELSE Plus(Whitespace)
                    [] OTHER -> Lit(fmt[f])],
              LAMBDA e : e.k # "nada")

\* The fields of the datetime when the format has no directive for them.
PorDefecto == [Y |-> 1900, m |-> 1, d |-> 1, H |-> 0, M |-> 0]

StrpFail == [ok |-> FALSE, fin |-> 0, val |-> PorDefecto]

\* The number that the directive D matched, i being the elements of the
\* pattern that stand for D and h the machine that matched s.
Valor(s, h, D, i) ==
    IF i = {} THEN PorDefecto[D]
    ELSE NumVal(SubSeq(s, IF MinOf(i) = 1 THEN 1 ELSE h.fines[MinOf(i) - 1],
                       h.fines[MinOf(i)] - 1))

\* What the halted machine h read of s under the pattern pat of the format.
Leido(s, pat, h) ==
    IF ~h.ok THEN StrpFail
    ELSE [ok  |-> TRUE,
          fin |-> h.pos,
          val |-> [D \in DOMAIN PorDefecto |->
                     Valor(s, h, D, {j \in 1..Len(pat) : pat[j].dir = D})]]

StrpConPatron(s, pat) == Leido(s, pat, Ejecuta(s, pat, TRUE, Arranque(1)))

\* The match of the format's regular expression at the start of s (re.match,
\* IGNORECASE) and the number each directive matched.
StrpMatch(s, fmt) == StrpConPatron(s, PatronFormato(fmt))

IsLeap(y) == (y % 4 = 0) /\ ((y % 100 # 0) \/ (y % 400 = 0))

DaysInMonth(y, m) ==
    IF m = 2 THEN (IF IsLeap(y) THEN 29 ELSE 28)
    ELSE IF m \in {4, 6, 9, 11} THEN 30 ELSE 31

\* datetime.toordinal: the day number of y-m-d, 0001-01-01 being day 1.
DaysBeforeYear(y) == (y - 1) * 365 + ((y - 1) \div 4) - ((y - 1) \div 100) + ((y - 1) \div 400)

\* The days of year y before the first of month m.
DaysBeforeMonth(y, m) ==
    <<0, 31, 59, 90, 120, 151, 181, 212, 243, 273, 304, 334>>[m]
      + (IF m > 2 /\ IsLeap(y) THEN 1 ELSE 0)

ToOrdinal(y, m, d) == DaysBeforeYear(y) + DaysBeforeMonth(y, m) + d

\* The datetime of the match r of the format on s, or the ValueError of a
\* string that does not match, has text left over or names no day.
Validada(s, r) ==
    IF ~r.ok THEN [exc |-> "ValueError", val |-> PorDefecto]
    ELSE IF r.fin # Len(s) + 1 THEN [exc |-> "ValueError", val |-> PorDefecto]
    ELSE IF r.val.Y < 1 \/ r.val.d > DaysInMonth(r.val.Y, r.val.m)
         THEN [exc |-> "ValueError", val |-> PorDefecto]
    ELSE [exc |-> "", val |-> r.val]

\* datetime.strptime(s, fmt): [exc |-> "" and the datetime, or the exception raised].
Strptime(s, fmt) ==
    IF s = None \/ fmt = None THEN [exc |-> "TypeError", val |-> PorDefecto]
    ELSE Validada(s, StrpMatch(s, fmt))

\* The difference of the dates alone, the times of day ignored.
DeltaDays_SoloFecha(ingreso, egreso) ==
    ToOrdinal(egreso.Y, egreso.m, egreso.d) - ToOrdinal(ingreso.Y, ingreso.m, ingreso.d)

\* The difference in minutes divided by a day's minutes rounding toward zero.
Trunca(minutes) == IF minutes >= 0 THEN minutes \div 1440 ELSE 0 - ((0 - minutes) \div 1440)
DeltaDays_Trunca(ingreso, egreso) ==
    Trunca((ToOrdinal(egreso.Y, egreso.m, egreso.d)
              - ToOrdinal(ingreso.Y, ingreso.m, ingreso.d)) * 1440
           + (egreso.H * 60 + egreso.M) - (ingreso.H * 60 + ingreso.M))

\* (egreso - ingreso).days: timedelta keeps 0 <= seconds < 86400, so days is the floor.
DeltaDays(ingreso, egreso) ==
    LET minutes == (ToOrdinal(egreso.Y, egreso.m, egreso.d)
                      - ToOrdinal(ingreso.Y, ingreso.m, ingreso.d)) * 1440
                   + (egreso.H * 60 + egreso.M) - (ingreso.H * 60 + ingreso.M)
    IN  minutes \div 1440

PyInt(n) == [tipo |-> "int", v |-> n]
PyNone   == [tipo |-> "None", v |-> 0]

\* An except clause that catches ValueError alone.
SoloValueError == {"ValueError"}

\* The exceptions the except clause of calcular_dias_estancia catches.
ExcepcionesAtrapadas == {"ValueError", "TypeError"}

\* What calcular_dias_estancia returns when its try block ends with exc
\* (none: ""), ingreso and egreso being the datetimes read.
Retorna(ingreso, egreso, exc) ==
    IF exc = "" THEN [exc |-> "", ret |-> PyInt(DeltaDays(ingreso.val, egreso.val))]
    ELSE IF exc \in ExcepcionesAtrapadas THEN [exc |-> "", ret |-> PyNone]
    ELSE [exc |-> exc, ret |-> PyNone]

\* The try block: the first strptime that raises ends it.
DiasEntre(ingreso, egreso) ==
    Retorna(ingreso, egreso, IF ingreso.exc # "" THEN ingreso.exc ELSE egreso.exc)

\* calcular_dias_estancia: [exc |-> the exception that escapes, ret |-> the value returned].
calcular_dias_estancia(ingreso_str, egreso_str, fmt) ==
    DiasEntre(Strptime(ingreso_str, fmt), Strptime(egreso_str, fmt))

\* The decimal digits of the natural number n.
RECURSIVE Decimal(_)
Decimal(n) ==
    IF n < 10 THEN <<CHOOSE c \in Digits : DigitVal[c] = n>>
    ELSE Decimal(n \div 10) \o <<CHOOSE c \in Digits : DigitVal[c] = n % 10>>

\* %m, %d, %H, %M of strftime: two digits, zero-padded.
DosCifras(n) == IF n < 10 THEN <<"0">> \o Decimal(n) ELSE Decimal(n)

\* What strftime writes for the character at f of fmt: a directive's value at
\* its letter, nothing at its "%", any other character as it stands.  The C
\* library's %Y writes the year without padding.
Escrito(dt, fmt, f) ==
    CASE fmt[f] = "%" /\ f < Len(fmt) -> <<>>
      [] f > 1 /\ fmt[f - 1] = "%" ->
           (CASE fmt[f] = "Y" -> Decimal(dt.Y)
              [] fmt[f] = "m" -> DosCifras(dt.m)
              [] fmt[f] = "d" -> DosCifras(dt.d)
              [] fmt[f] = "H" -> DosCifras(dt.H)
              [] fmt[f] = "M" -> DosCifras(dt.M)
              [] OTHER -> <<"%", fmt[f]>>)
      [] OTHER -> <<fmt[f]>>

\* fecha.strftime(fmt)
Strftime(dt, fmt) == Join(<<>>, [f \in 1..Len(fmt) |-> Escrito(dt, fmt, f)])

\* The exceptions the except clause of formatear_fecha catches.
ExcepcionesDeFormato == {"ValueError"}

\* What formatear_fecha returns when strptime gave fecha for fecha_str.
Formateada(fecha_str_, fecha, formato_salida) ==
    IF fecha.exc = "" THEN [exc |-> "", ret |-> Strftime(fecha.val, formato_salida)]
    ELSE IF fecha.exc \in ExcepcionesDeFormato THEN [exc |-> "", ret |-> fecha_str_]
    ELSE [exc |-> fecha.exc, ret |-> <<>>]

\* formatear_fecha: [exc |-> the exception that escapes, ret |-> the value returned].
formatear_fecha(fecha_str_, formato_entrada, formato_salida) ==
    IF fecha_str_ = None \/ fecha_str_ = <<>> THEN [exc |-> "", ret |-> <<>>]
    ELSE Formateada(fecha_str_, Strptime(fecha_str_, formato_entrada), formato_salida)

(***************************************************************************)
(* The regex extractors and procesar_historia_regex                        *)
(***************************************************************************)
\* A dict of one key, and the dict that holds no key.
EmptyDict == <<>>
Entry(k, v) == k :> v

\* sys.int_info.default_max_str_digits: int() of a longer digit string raises ValueError.
INT_MAX_STR_DIGITS == 4300

\* int(ds) of a string of decimal digits: the integer, kept as its decimal
\* digits without leading zeros, or the ValueError of the conversion limit.
SinCeros(ds, nz) == IF nz = {} THEN <<"0">> ELSE SubSeq(ds, MinOf(nz), Len(ds))
PyIntOfDigits(ds) ==
    IF Len(ds) > INT_MAX_STR_DIGITS THEN [exc |-> "ValueError", ret |-> <<>>]
    ELSE [exc |-> "", ret |-> SinCeros(ds, {i \in 1..Len(ds) : ds[i] # "0"})]

\* r'CC\s*(\d+)'
PatronDocumento ==
    << <<Str(<<"C", "C">>), Star(Whitespace), Grupo(1, Plus(Digits))>> >>

\* r'--\s*([A-ZÁÉÍÓÚÑ\s]+?)\s+Fec\.\s*Nacimiento'
PatronNombre ==
    << <<Str(<<"-", "-">>), Star(Whitespace),
         Grupo(1, PlusLazy(UpperAZ \cup {A_ACUTE_UP, E_ACUTE_UP, I_ACUTE_UP, O_ACUTE_UP,
                                         U_ACUTE_UP, N_TILDE_UP} \cup Whitespace)),
         Plus(Whitespace), Str(<<"F", "e", "c", ".">>), Star(Whitespace),
         Str(<<"N", "a", "c", "i", "m", "i", "e", "n", "t", "o">>)>> >>

\* \d{2}/\d{2}/\d{4}
DosCuatro(sep) ==
    Fix(<<Digits, Digits, {sep}, Digits, Digits, {sep}, Digits, Digits, Digits, Digits>>)
\* \d{2}:\d{2}:\d{2}
DosDos(sep) == Fix(<<Digits, Digits, {sep}, Digits, Digits, {sep}, Digits, Digits>>)

\* r'Fec\.\s*Nacimiento:\s*(\d{2}/\d{2}/\d{4})'
PatronFechaNacimiento ==
    << <<Str(<<"F", "e", "c", ".">>), Star(Whitespace),
         Str(<<"N", "a", "c", "i", "m", "i", "e", "n", "t", "o", ":">>),
         Star(Whitespace), Grupo(1, DosCuatro("/"))>> >>

\* r'Edad\s*actual:\s*(\d+)\s*AÑOS'
PatronEdad ==
    << <<Str(<<"E", "d", "a", "d">>), Star(Whitespace),
         Str(<<"a", "c", "t", "u", "a", "l", ":">>), Star(Whitespace),
         Grupo(1, Plus(Digits)), Star(Whitespace), Str(<<"A", N_TILDE_UP, "O", "S">>)>> >>

\* r'Teléfono:\s*(\d+)'
PatronTelefono ==
    << <<Str(<<"T", "e", "l", E_ACUTE, "f", "o", "n", "o", ":">>), Star(Whitespace),
         Grupo(1, Plus(Digits))>> >>

\* r'Dirección:\s*([^\n]+)'
PatronDireccion ==
    << <<Str(<<"D", "i", "r", "e", "c", "c", "i", O_ACUTE, "n", ":">>), Star(Whitespace),
         Grupo(1, NotPlus({LF}))>> >>

\* r'(?:EPS|ENTIDAD PROMOTORA DE SALUD)[:\s]+([^\n]+)'
RestoAfiliacion == <<Plus({":"} \cup Whitespace), Grupo(1, NotPlus({LF}))>>
PatronAfiliacion ==
    << <<Str(<<"E", "P", "S">>)>> \o RestoAfiliacion,
       <<Str(<<"E", "N", "T", "I", "D", "A", "D", SP, "P", "R", "O", "M", "O", "T", "O", "R",
               "A", SP, "D", "E", SP, "S", "A", "L", "U", "D">>)>> \o RestoAfiliacion >>

\* The key set to group 1 of the match r, when there is one.
Anota(t, key, strip, r) ==
    IF ~r.ok THEN EmptyDict
    ELSE Entry(key, IF strip THEN Strip(Group(t, r, 1)) ELSE Group(t, r, 1))

\* One probe of extraer_paciente_regex: the key set to group 1 when the pattern is found.
Campo(t, key, alts, strip) == Anota(t, key, strip, Search(t, alts, TRUE))

\* The dict of the patient, edad being the match of the age and anos its int().
PacienteCon(t, edad, anos) ==
    IF anos.exc # "" THEN [exc |-> anos.exc, ret |-> EmptyDict]
    ELSE [exc |-> "",
          ret |-> Campo(t, "documento", PatronDocumento, FALSE)
                  @@ Campo(t, "nombre", PatronNombre, TRUE)
                  @@ Campo(t, "fecha_nacimiento", PatronFechaNacimiento, FALSE)
                  @@ (IF edad.ok THEN Entry("edad", anos.ret) ELSE EmptyDict)
                  @@ Campo(t, "telefono", PatronTelefono, FALSE)
                  @@ Campo(t, "direccion", PatronDireccion, TRUE)
                  @@ Campo(t, "afiliacion", PatronAfiliacion, TRUE)]

Paciente(t, edad) ==
    PacienteCon(t, edad, IF edad.ok THEN PyIntOfDigits(Group(t, edad, 1))
                         ELSE [exc |-> "", ret |-> <<>>])

\* extraer_paciente_regex: [exc |-> the exception that escapes, ret |-> the dict].
extraer_paciente_regex(t) == Paciente(t, Search(t, PatronEdad, TRUE))

\* r'SEDE DE ATENCION\s+(\d+)\s+([^\n]+?)\s+FOLIO\s+\d+\s+FECHA\s+(\d{2}/\d{2}/\d{4})\s+
\*   (\d{2}:\d{2}:\d{2})\s+TIPO DE ATENCION\s*:\s*([^\n]+)'
PatronServicio ==
    << <<Str(<<"S", "E", "D", "E", SP, "D", "E", SP, "A", "T", "E", "N", "C", "I", "O", "N">>),
         Plus(Whitespace), Grupo(1, Plus(Digits)), Plus(Whitespace),
         Grupo(2, NotPlusLazy({LF})), Plus(Whitespace),
         Str(<<"F", "O", "L", "I", "O">>), Plus(Whitespace), Plus(Digits), Plus(Whitespace),
         Str(<<"F", "E", "C", "H", "A">>), Plus(Whitespace), Grupo(3, DosCuatro("/")),
         Plus(Whitespace), Grupo(4, DosDos(":")), Plus(Whitespace),
         Str(<<"T", "I", "P", "O", SP, "D", "E", SP, "A", "T", "E", "N", "C", "I", "O", "N">>),
         Star(Whitespace), Lit(":"), Star(Whitespace), Grupo(5, NotPlus({LF}))>> >>

\* The dict appended for the match m.
Servicio(t, m) ==
    [sede_codigo   |-> Group(t, m, 1),
     sede_nombre   |-> Strip(Group(t, m, 2)),
     fecha_ingreso |-> Group(t, m, 3),
     hora_ingreso  |-> Group(t, m, 4),
     tipo_atencion |-> Strip(Group(t, m, 5)),
     fecha_egreso  |-> None,
     hora_egreso   |-> None]

Servicios(t, ms) == [i \in 1..Len(ms) |-> Servicio(t, ms[i])]

extraer_servicios_regex(t) == Servicios(t, FindIter(t, PatronServicio, TRUE))

\* r'(?:DIAGN[OÓ]STICO|DX|DIAGN[OÓ]STICOS?)\s*:?\s*([A-Z0-9]+\s+[^\n]+)'
RestoDiagnostico ==
    <<Star(Whitespace), Opt({":"}), Star(Whitespace), Abre(1, Plus(UpperAZ \cup Digits)),
      Plus(Whitespace), Cierra(1, NotPlus({LF}))>>
\* DIAGN[OÓ]STICO
Diagnostico ==
    Fix(<<{"D"}, {"I"}, {"A"}, {"G"}, {"N"}, {"O", O_ACUTE_UP}, {"S"}, {"T"}, {"I"}, {"C"},
          {"O"}>>)
PatronDiagnostico ==
    << <<Diagnostico>> \o RestoDiagnostico,
       <<Str(<<"D", "X">>)>> \o RestoDiagnostico,
       <<Diagnostico, Opt({"S"})>> \o RestoDiagnostico >>

\* r'([A-Z]\d{3})'
PatronCodigo_TresDigitos == << <<Abre(1, One(UpperAZ)), Cierra(1, Rep(Digits, 3, 3))>> >>

\* r'([A-Z]\d{2,3})'
PatronCodigo == << <<Abre(1, One(UpperAZ)), Cierra(1, Rep(Digits, 2, 3))>> >>

\* 'principal' if len(diagnosticos) <= 1 else 'secundario'
TipoDiagnostico_HastaDos(len_diagnosticos) ==
    IF len_diagnosticos <= 1 THEN "principal" ELSE "secundario"

\* 'principal' if len(diagnosticos) == 0 else 'secundario'
TipoDiagnostico(len_diagnosticos) ==
    IF len_diagnosticos = 0 THEN "principal" ELSE "secundario"

\* The dict appended for the text diag, codigo being the match of the code
\* in it and len_diagnosticos the number of dicts appended before.
RegistroDiagnostico(diag, codigo, len_diagnosticos) ==
    [codigo      |-> IF codigo.ok THEN Group(diag, codigo, 1) ELSE <<>>,
     descripcion |-> diag,
     tipo        |-> TipoDiagnostico(len_diagnosticos)]

DiagnosticoDe(diag, len_diagnosticos) ==
    RegistroDiagnostico(diag, Search(diag, PatronCodigo, FALSE), len_diagnosticos)

Diagnosticos(t, ms) ==
    [i \in 1..Len(ms) |-> DiagnosticoDe(Strip(Group(t, ms[i], 1)), i - 1)]

extraer_diagnosticos_regex(t) == Diagnosticos(t, FindIter(t, PatronDiagnostico, TRUE))

\* The extractors that are placeholders: each returns an empty list.
extraer_medicamentos_regex(t)   == <<>>
extraer_procedimientos_regex(t) == <<>>
extraer_cirugias_regex(t)       == <<>>
extraer_laboratorios_regex(t)   == <<>>
extraer_imagenes_regex(t)       == <<>>
extraer_interconsultas_regex(t) == <<>>
extraer_evoluciones_regex(t)    == <<>>
extraer_altas_regex(t)          == <<>>

NoHistoria == [sin_resultado |-> TRUE]

\* The dict literal of procesar_historia_regex over the cleaned text t, pac
\* being what extraer_paciente_regex gave:
\* [exc |-> the exception that escapes, ret |-> the mapping].
Agrega(t, pac) ==
    IF pac.exc # "" THEN [exc |-> pac.exc, ret |-> NoHistoria]
    ELSE [exc |-> "",
          ret |-> [paciente       |-> pac.ret,
                   servicios      |-> extraer_servicios_regex(t),
                   diagnosticos   |-> extraer_diagnosticos_regex(t),
                   medicamentos   |-> extraer_medicamentos_regex(t),
                   procedimientos |-> extraer_procedimientos_regex(t),
                   cirugias       |-> extraer_cirugias_regex(t),
                   laboratorios   |-> extraer_laboratorios_regex(t),
                   imagenes       |-> extraer_imagenes_regex(t),
                   interconsultas |-> extraer_interconsultas_regex(t),
                   evoluciones    |-> extraer_evoluciones_regex(t),
                   altas          |-> extraer_altas_regex(t)]]

Historia(t) == Agrega(t, extraer_paciente_regex(t))

\* procesar_historia_regex: texto = limpiar_texto(texto), then the dict literal.
procesar_historia_regex(t0) == Historia(limpiar_texto(t0))

(***************************************************************************)
(* calcular_resumen_facturacion.  A value of the extracted data is tagged  *)
(* with its Python type: PyNone, PyInt, PyBool, PyStr (v a text), PyList  *)
(* (v a sequence) or PyDict (v a function of its keys).                    *)
(***************************************************************************)
PyBool(b) == [tipo |-> "bool", v |-> b]
PyStr(t)  == [tipo |-> "str", v |-> t]
PyList(l) == [tipo |-> "list", v |-> l]
PyDict(d) == [tipo |-> "dict", v |-> d]

\* bool(x)
Truthy(x) ==
    CASE x.tipo = "None" -> FALSE
      [] x.tipo = "bool" -> x.v
      [] x.tipo = "int"  -> x.v # 0
      [] x.tipo = "list" -> Len(x.v) > 0
      [] x.tipo = "dict" -> DOMAIN x.v # {}
      [] x.tipo = "str"  -> Len(x.v) > 0

\* d.get(k, default), d the keys and values of a dict.
Get(d, k, default) == IF k \in DOMAIN d THEN d[k] ELSE default

\* dict.setdefault in the place of dict.get: a missing key is inserted.
Leida_SetDefault(d, k, default) ==
    [valor |-> Get(d, k, default),
     data  |-> IF k \in DOMAIN d THEN d ELSE d @@ (k :> default)]

\* data.get(k, default): the value read and the dict data after the call.
Leida(d, k, default) == [valor |-> Get(d, k, default), data |-> d]

\* Every record counted, whatever its realizado.
Realizados_Todos(registros) == registros

\* [p for p in registros if p.get('realizado')]
Realizados(registros) ==
    SelectSeq(registros, LAMBDA p : Truthy(Get(p, "realizado", PyNone)))

\* Only the stays of a positive day count.
ConDias_Positivos(estancias) ==
    SelectSeq(estancias, LAMBDA e : Get(e, "dias_estancia", PyNone).tipo = "int"
                                      /\ Get(e, "dias_estancia", PyNone).v > 0)

\* (e for e in estancias if e.get('dias_estancia'))
ConDias(estancias) ==
    SelectSeq(estancias, LAMBDA e : Truthy(Get(e, "dias_estancia", PyNone)))

\* sum(e.get('dias_estancia', 0) for e in estancias)
RECURSIVE SumaDias(_)
SumaDias(estancias) ==
    IF estancias = <<>> THEN 0
    ELSE Get(Head(estancias), "dias_estancia", PyInt(0)).v + SumaDias(Tail(estancias))

\* The state of the call: the exception raised ("" when none), the dict
\* resumen built so far and the argument data as the call has left it.
Llamada(exc, resumen_, data_) == [exc |-> exc, ret |-> resumen_, data |-> data_]

\* resumen['paciente'] = {...}, paciente being what data.get('paciente', {}) gave.
ConPaciente(paciente) ==
    IF paciente.valor.tipo # "dict" THEN Llamada("AttributeError", <<>>, paciente.data)
    ELSE Llamada("", "paciente" :> [nombre     |-> Get(paciente.valor.v, "nombre", "N/A"),
                                    documento  |-> Get(paciente.valor.v, "documento", "N/A"),
                                    afiliacion |-> Get(paciente.valor.v, "afiliacion", "N/A")],
                 paciente.data)

\* resumen['estancias'] = {...}
AnotaEstancias(ll, estancias) ==
    IF estancias.valor.tipo # "list" THEN Llamada("TypeError", ll.ret, estancias.data)
    ELSE Llamada("", ll.ret @@ ("estancias" :>
                        [total_dias    |-> SumaDias(ConDias(estancias.valor.v)),
                         num_estancias |-> Len(estancias.valor.v)]),
                 estancias.data)

ConEstancias(ll) ==
    IF ll.exc # "" THEN ll ELSE AnotaEstancias(ll, Leida(ll.data, "estancias", PyList(<<>>)))

\* resumen[k] = {'total': len(registros), hechos: len(realizados)}
AnotaConteo(ll, registros, k, hechos) ==
    IF registros.valor.tipo # "list" THEN Llamada("TypeError", ll.ret, registros.data)
    ELSE Llamada("", ll.ret @@ (k :> ("total" :> Len(registros.valor.v)
                                        @@ hechos :> Len(Realizados(registros.valor.v)))),
                 registros.data)

ConConteo(ll, k, hechos) ==
    IF ll.exc # "" THEN ll ELSE AnotaConteo(ll, Leida(ll.data, k, PyList(<<>>)), k, hechos)

\* resumen['diagnosticos'] = len(diagnosticos)
AnotaDiagnosticos(ll, diagnosticos) ==
    IF diagnosticos.valor.tipo # "list" THEN Llamada("TypeError", ll.ret, diagnosticos.data)
    ELSE Llamada("", ll.ret @@ ("diagnosticos" :> Len(diagnosticos.valor.v)),
                 diagnosticos.data)

ConDiagnosticos(ll) ==
    IF ll.exc # "" THEN ll
    ELSE AnotaDiagnosticos(ll, Leida(ll.data, "diagnosticos", PyList(<<>>)))

\* calcular_resumen_facturacion: [exc |-> the exception that escapes, ret |->
\* the dict returned, data |-> the argument after the call].
calcular_resumen_facturacion(data_) ==
    ConDiagnosticos(
      ConConteo(
        ConConteo(
          ConConteo(
            ConConteo(
              ConEstancias(ConPaciente(Leida(data_, "paciente", PyDict(EmptyDict)))),
              "procedimientos", "realizados"),
            "medicamentos", "aplicados"),
          "laboratorios", "realizados"),
        "imagenes", "realizados"))

(***************************************************************************)
(* Text extraction from the uploaded PDF.  An uploaded file is a record:   *)
(* name, bytes, size_mb, and for each engine what it does with the file:   *)
(* exc, the exception it raises ("" when none), and paginas, what          *)
(* extract_text() gives for each page (a text, <<>> or None).             *)
(***************************************************************************)
MAX_CARACTERES_IA == 500000
MAX_MB_PDF        == 200
MAX_PAGINAS       == 500

\* hashlib.sha256(archivo_bytes).hexdigest(): one digest for each content.
generar_hash_archivo(archivo_bytes) == PyStr(<<"sha256", archivo_bytes>>)

\* An empty text in the place of None.
SinTexto_Vacio == [texto |-> PyStr(<<>>), paginas |-> 0]

\* (None, 0): the engine, or the extraction, has no text.
SinTexto == [texto |-> PyNone, paginas |-> 0]

\* Every page read, whatever their number.
PrimerasPaginas_Todas(paginas) == paginas

\* The pages an engine reads: the first MAX_PAGINAS.
PrimerasPaginas(paginas) ==
    SubSeq(paginas, 1, IF Len(paginas) > MAX_PAGINAS THEN MAX_PAGINAS ELSE Len(paginas))

\* "\n".join(pdf.pages[i].extract_text() or "" for i in range(paginas))
TextoPlumber(leidas) ==
    [texto   |-> PyStr(Join(<<LF>>, [i \in 1..Len(leidas) |->
                                       IF leidas[i] = None THEN <<>> ELSE leidas[i]])),
     paginas |-> Len(leidas)]

extraer_texto_pdf_pdfplumber(archivo_pdf) ==
    IF archivo_pdf.pdfplumber.exc # "" THEN SinTexto
    ELSE TextoPlumber(PrimerasPaginas(archivo_pdf.pdfplumber.paginas))

\* texto += contenido + "\n" for each page with a content
TextoPyPDF2(leidas) ==
    [texto   |-> PyStr(Join(<<>>, [i \in 1..Len(leidas) |->
                                     IF leidas[i] \in {None, <<>>} THEN <<>>
                                     ELSE leidas[i] \o <<LF>>])),
     paginas |-> Len(leidas)]

extraer_texto_pdf_pypdf2(archivo_pdf) ==
    IF archivo_pdf.pypdf2.exc # "" THEN SinTexto
    ELSE TextoPyPDF2(PrimerasPaginas(archivo_pdf.pypdf2.paginas))

\* The second engine's result if it has text, otherwise the failure signal.
ConPyPDF2(segundo) ==
    IF Truthy(segundo.texto) THEN segundo @@ [motores |-> <<"pdfplumber", "PyPDF2">>]
    ELSE SinTexto @@ [motores |-> <<"pdfplumber", "PyPDF2">>]

ConPlumber(archivo_pdf, primero) ==
    IF Truthy(primero.texto) THEN primero @@ [motores |-> <<"pdfplumber">>]
    ELSE ConPyPDF2(extraer_texto_pdf_pypdf2(archivo_pdf))

\* extraer_texto_pdf: [texto, paginas] and the engines invoked, in their order.
extraer_texto_pdf(archivo_pdf) ==
    ConPlumber(archivo_pdf, extraer_texto_pdf_pdfplumber(archivo_pdf))

(***************************************************************************)
(* The calls to Gemini.  What the service does in a call is an input:      *)
(* configure, whether genai.configure raises; generate, whether            *)
(* generate_content raises; text, whether reading response.text raises;   *)
(* cerca, whether the answer comes inside a ```json fence; cuerpo, the     *)
(* kind of text answered.                                                  *)
(***************************************************************************)
\* texto[:MAX_CARACTERES_IA] when it is longer
Truncado(t) == IF Len(t) > MAX_CARACTERES_IA THEN SubSeq(t, 1, MAX_CARACTERES_IA) ELSE t

\* The structured data the model answers for the clinical record t.
DatosDe(t) ==
    PyDict("paciente" :> PyDict("nombre" :> PyStr(t))
             @@ "procedimientos" :> PyList(<<[realizado |-> PyBool(TRUE)]>>))

\* contenido after the fence is looked for: the fenced object when
\* r'```json\s*(\{.*?\})\s*```' matches, the whole answer otherwise.
Contenido(respuesta) ==
    IF respuesta.cerca
    THEN (IF respuesta.cuerpo \in {"objeto", "vacio"} THEN respuesta.cuerpo ELSE "cercado")
    ELSE respuesta.cuerpo

\* json.loads(contenido) for the prompt that carries t
JsonLoads(contenido, t) ==
    CASE contenido = "objeto" -> [exc |-> "", ret |-> DatosDe(t)]
      [] contenido = "vacio"  -> [exc |-> "", ret |-> PyDict(EmptyDict)]
      [] contenido = "lista"  -> [exc |-> "", ret |-> PyList(<<>>)]
      [] contenido = "null"   -> [exc |-> "", ret |-> PyNone]
      [] OTHER                -> [exc |-> "JSONDecodeError", ret |-> PyNone]

\* The two except clauses of extract_with_gemini: a JSONDecodeError, like any
\* other exception of the try block, gives None.
Atrapada(cargado) == [exc |-> "", ret |-> IF cargado.exc = "" THEN cargado.ret ELSE PyNone]

\* The try block of extract_with_gemini.
Extraido(servicio, t) ==
    IF servicio.generate # "" \/ servicio.text # "" THEN [exc |-> "", ret |-> PyNone]
    ELSE Atrapada(JsonLoads(Contenido(servicio), Truncado(t)))

\* extract_with_gemini: [exc |-> the exception that escapes, ret |-> the value
\* returned].  configure_gemini is called before the try block and raises
\* again what genai.configure raised.
extract_with_gemini(t, servicio) ==
    IF servicio.configure # "" THEN [exc |-> servicio.configure, ret |-> PyNone]
    ELSE Extraido(servicio, t)

\* The report the model writes for the data datos.
InformeDe(datos) == PyStr(<<"informe", datos>>)

\* f"**Error al generar el análisis:** {e}"
InformeDeError(e) == PyStr(<<"**Error al generar el análisis:**", e>>)

\* analyze_billing_with_gemini: [exc |-> the exception that escapes, ret |->
\* the text returned].
analyze_billing_with_gemini(datos, servicio) ==
    IF servicio.configure # "" THEN [exc |-> servicio.configure, ret |-> PyNone]
    ELSE IF servicio.generate # "" THEN [exc |-> "", ret |-> InformeDeError(servicio.generate)]
    ELSE IF servicio.text # "" THEN [exc |-> "", ret |-> InformeDeError(servicio.text)]
    ELSE [exc |-> "", ret |-> InformeDe(datos)]

(***************************************************************************)
(* The session: st.session_state as a function of its keys, and the        *)
(* sidebar.                                                                *)
(***************************************************************************)
\* st.session_state.k = v
Set(ss, k, v) == (k :> v) @@ ss

\* if k not in st.session_state: st.session_state.k = v
SetSiFalta(ss, k, v) == IF k \in DOMAIN ss THEN ss ELSE Set(ss, k, v)

inicializar_estado_sesion(ss) ==
    SetSiFalta(SetSiFalta(SetSiFalta(SetSiFalta(SetSiFalta(SetSiFalta(ss,
        "datos_extraidos", PyNone),
        "texto_crudo", PyNone),
        "hash_archivo", PyNone),
        "procesado", PyBool(FALSE)),
        "api_key_valida", PyBool(FALSE)),
        "debug_mode", PyBool(FALSE))

\* validar_api_key, validacion being what the test call does: "ok", a
\* response with text; "vacia", a response without text; "error", an
\* exception of configure_gemini or generate_content.
validar_api_key(ss, validacion) ==
    CASE validacion = "ok"    -> [ret |-> TRUE,  session |-> Set(ss, "api_key_valida", PyBool(TRUE))]
      [] validacion = "error" -> [ret |-> FALSE, session |-> Set(ss, "api_key_valida", PyBool(FALSE))]
      [] OTHER                -> [ret |-> FALSE, session |-> ss]

\* The end of the sidebar: the debug checkboxes, and return api_key.
\* validadas holds the key for which validar_api_key returned True in the call.
ConDebug(ss, api_key, w) ==
    [ret |-> PyStr(api_key), session |-> Set(ss, "debug_mode", PyBool(w.debug)), validadas |-> {}]

\* A key that validar_api_key has rejected is returned all the same.
Validada_Siempre(validado, api_key, w) == ConDebug(validado.session, api_key, w)

\* The key has changed: it is validated, and kept when valid.
Validada_(validado, api_key, w) ==
    IF validado.ret
    THEN [ConDebug(Set(validado.session, "api_key_ingresada", PyStr(api_key)), api_key, w)
             EXCEPT !.validadas = {api_key}]
    ELSE [ret |-> PyNone, session |-> validado.session, validadas |-> {}]

\* The branch of the text input.
ConClaveIngresada(ss, w, validacion) ==
    IF w.api_key = <<>> THEN [ret |-> PyNone, session |-> ss, validadas |-> {}]
    ELSE IF PyStr(w.api_key) # Get(ss, "api_key_ingresada", PyNone)
         THEN Validada_(validar_api_key(ss, validacion), w.api_key, w)
    ELSE IF ~ss["api_key_valida"].v THEN [ret |-> PyNone, session |-> ss, validadas |-> {}]
    ELSE ConDebug(ss, w.api_key, w)

\* sidebar_configuracion: [ret |-> the key or None, session |-> the session
\* state it leaves, validadas |-> the key validated in the call, if any].
sidebar_configuracion(ss, secretos, w, validacion) ==
    IF "GEMINI_API_KEY" \in DOMAIN secretos
    THEN ConDebug(ss, secretos["GEMINI_API_KEY"], w)
    ELSE ConClaveIngresada(ss, w, validacion)

(***************************************************************************)
(* The parts of the state a call under study does not involve.            *)
(***************************************************************************)
RegexOcioso ==
    /\ bloques = <<>>
    /\ texto = <<>>
    /\ pasadas = 0
    /\ previo = <<>>
    /\ historia = NoHistoria

DiasOcioso ==
    /\ fecha_ingreso = <<>>
    /\ fecha_egreso = <<>>
    /\ formato = <<>>
    /\ dias = PyNone

SesionOciosa ==
    /\ session_state = <<>>
    /\ secrets = <<>>
    /\ widgets = <<>>
    /\ paso = "fuera"
    /\ corrida = <<>>
    /\ llamadas = <<>>

ResumenOcioso ==
    /\ data = <<>>
    /\ resumen = <<>>
    /\ resumen_anterior = <<>>
    /\ n_resumen = 0

FechaOciosa ==
    /\ fecha_str = <<>>
    /\ fecha_formateada = <<>>

(***************************************************************************)
(* The normalizer called once and again on its own output.                 *)
(***************************************************************************)
MaxLen     == 4
MaxPasadas == 2

AlfabetoLimpiar == {"a", SP, TAB, LF, CR, SOH, NEL}

TextosHasta(alfabeto, n) == UNION {[1..k -> alfabeto] : k \in 0..n}

InitLimpiar ==
    /\ texto \in TextosHasta(AlfabetoLimpiar, MaxLen) \cup {None}
    /\ bloques = <<>>
    /\ pasadas = 0
    /\ previo = <<>>
    /\ fase = "entrada"
    /\ historia = NoHistoria
    /\ excepcion = ""
    /\ fecha_ingreso = <<>>
    /\ fecha_egreso = <<>>
    /\ formato = <<>>
    /\ dias = PyNone
    /\ SesionOciosa
    /\ ResumenOcioso
    /\ FechaOciosa

\* texto = limpiar_texto(texto)
LimpiarTexto ==
    /\ pasadas < MaxPasadas
    /\ previo' = texto
    /\ texto' = limpiar_texto(texto)
    /\ pasadas' = pasadas + 1
    /\ UNCHANGED <<bloques, fase, historia, excepcion, fecha_ingreso, fecha_egreso,
                   formato, dias>>
    /\ UNCHANGED <<varsSesion, varsResumen, varsFecha>>

NextLimpiar == LimpiarTexto

SpecLimpiar == InitLimpiar /\ [][NextLimpiar]_vars

\* C1: normalization is idempotent: a second limpiar_texto call returns its
\* argument, the output of the first call, unchanged.
C1_Idempotente == pasadas >= 2 => texto = previo

\* The characters of U+0000..U+001F and U+007F, other than the newline, that
\* the texts of this model are written with.
ControlesSinSalto == {SOH, TAB, CR, VT, FF, FS, DEL}

\* C14: the output of limpiar_texto contains no control character other than
\* the newline: no tab, no carriage return, nothing of U+0000..U+001F or
\* U+007F except U+000A.
C14_SinControles ==
    pasadas >= 1 => \A i \in 1..Len(texto) : texto[i] \notin ControlesSinSalto

\* C15: the output of limpiar_texto contains no blank line: no newline is
\* followed at once by another newline.
C15_SinLineasVacias ==
    pasadas >= 1 => \A i \in 1..(Len(texto) - 1) : ~(texto[i] = LF /\ texto[i + 1] = LF)

(***************************************************************************)
(* calcular_dias_estancia called on sample date strings.                   *)
(***************************************************************************)
\* "%d/%m/%Y", the default format
FMT_FECHA == <<"%", "d", "/", "%", "m", "/", "%", "Y">>
\* "%Y-%m-%d %H:%M"
FMT_FECHA_HORA == <<"%", "Y", "-", "%", "m", "-", "%", "d", SP, "%", "H", ":", "%", "M">>

\* "10/01/2024"
F_10_ENE == <<"1", "0", "/", "0", "1", "/", "2", "0", "2", "4">>
\* "15/01/2024"
F_15_ENE == <<"1", "5", "/", "0", "1", "/", "2", "0", "2", "4">>
\* "31/12/2023"
F_31_DIC == <<"3", "1", "/", "1", "2", "/", "2", "0", "2", "3">>
\* "29/02/2024"
F_29_FEB == <<"2", "9", "/", "0", "2", "/", "2", "0", "2", "4">>
\* "1/3/2024"
F_1_MAR == <<"1", "/", "3", "/", "2", "0", "2", "4">>
\* "29/02/2023": no such day
F_29_FEB_23 == <<"2", "9", "/", "0", "2", "/", "2", "0", "2", "3">>
\* "32/01/2024"
F_32_ENE == <<"3", "2", "/", "0", "1", "/", "2", "0", "2", "4">>
\* "10/13/2024"
F_MES_13 == <<"1", "0", "/", "1", "3", "/", "2", "0", "2", "4">>
\* "10-01-2024"
F_GUIONES == <<"1", "0", "-", "0", "1", "-", "2", "0", "2", "4">>
\* "10/01/2024 08:00": text after the date
F_CON_HORA == <<"1", "0", "/", "0", "1", "/", "2", "0", "2", "4", SP, "0", "8", ":", "0", "0">>
\* "01/01/0000"
F_ANIO_0 == <<"0", "1", "/", "0", "1", "/", "0", "0", "0", "0">>
\* "2024-01-10 08:00"
FH_10_ENE_0800 ==
    <<"2", "0", "2", "4", "-", "0", "1", "-", "1", "0", SP, "0", "8", ":", "0", "0">>
\* "2024-01-15 10:00"
FH_15_ENE_1000 ==
    <<"2", "0", "2", "4", "-", "0", "1", "-", "1", "5", SP, "1", "0", ":", "0", "0">>
\* "2024-01-15 07:00"
FH_15_ENE_0700 ==
    <<"2", "0", "2", "4", "-", "0", "1", "-", "1", "5", SP, "0", "7", ":", "0", "0">>
\* "2024-01-10  8:5"
FH_10_ENE_0805 ==
    <<"2", "0", "2", "4", "-", "0", "1", "-", "1", "0", SP, SP, "8", ":", "5">>
\* "2023-12-31 23:59"
FH_31_DIC_2359 ==
    <<"2", "0", "2", "3", "-", "1", "2", "-", "3", "1", SP, "2", "3", ":", "5", "9">>
\* "2024-01-10 08:60"
FH_MIN_60 ==
    <<"2", "0", "2", "4", "-", "0", "1", "-", "1", "0", SP, "0", "8", ":", "6", "0">>
\* "2024-01-10 24:00"
FH_HORA_24 ==
    <<"2", "0", "2", "4", "-", "0", "1", "-", "1", "0", SP, "2", "4", ":", "0", "0">>

FechaHora(Y, m, d, H, M) == [Y |-> Y, m |-> m, d |-> d, H |-> H, M |-> M]

\* The sample strings that are a date of their format, with the instant each denotes.
FechasValidas ==
    { [s |-> F_10_ENE, fmt |-> FMT_FECHA, dt |-> FechaHora(2024, 1, 10, 0, 0)],
      [s |-> F_15_ENE, fmt |-> FMT_FECHA, dt |-> FechaHora(2024, 1, 15, 0, 0)],
      [s |-> F_31_DIC, fmt |-> FMT_FECHA, dt |-> FechaHora(2023, 12, 31, 0, 0)],
      [s |-> F_29_FEB, fmt |-> FMT_FECHA, dt |-> FechaHora(2024, 2, 29, 0, 0)],
      [s |-> F_1_MAR,  fmt |-> FMT_FECHA, dt |-> FechaHora(2024, 3, 1, 0, 0)],
      [s |-> FH_10_ENE_0800, fmt |-> FMT_FECHA_HORA, dt |-> FechaHora(2024, 1, 10, 8, 0)],
      [s |-> FH_15_ENE_1000, fmt |-> FMT_FECHA_HORA, dt |-> FechaHora(2024, 1, 15, 10, 0)],
      [s |-> FH_15_ENE_0700, fmt |-> FMT_FECHA_HORA, dt |-> FechaHora(2024, 1, 15, 7, 0)],
      [s |-> FH_10_ENE_0805, fmt |-> FMT_FECHA_HORA, dt |-> FechaHora(2024, 1, 10, 8, 5)],
      [s |-> FH_31_DIC_2359, fmt |-> FMT_FECHA_HORA, dt |-> FechaHora(2023, 12, 31, 23, 59)] }

FechasDeMuestra ==
    {v.s : v \in FechasValidas}
      \cup {F_29_FEB_23, F_32_ENE, F_MES_13, F_GUIONES, F_CON_HORA, F_ANIO_0,
            FH_MIN_60, FH_HORA_24, <<>>, None}

EsValida(s, fmt) == \E v \in FechasValidas : v.s = s /\ v.fmt = fmt
Instante(s, fmt) == (CHOOSE v \in FechasValidas : v.s = s /\ v.fmt = fmt).dt

InitDias ==
    /\ fecha_ingreso \in FechasDeMuestra
    /\ fecha_egreso \in FechasDeMuestra
    /\ formato \in {FMT_FECHA, FMT_FECHA_HORA}
    /\ dias = PyNone
    /\ fase = "entrada"
    /\ excepcion = ""
    /\ bloques = <<>>
    /\ texto = <<>>
    /\ pasadas = 0
    /\ previo = <<>>
    /\ historia = NoHistoria
    /\ SesionOciosa
    /\ ResumenOcioso
    /\ FechaOciosa

\* dias = calcular_dias_estancia(fecha_ingreso, fecha_egreso, formato)
CalcularDiasEstancia ==
    /\ fase = "entrada"
    /\ \E r \in {calcular_dias_estancia(fecha_ingreso, fecha_egreso, formato)} :
          /\ dias' = r.ret
          /\ excepcion' = r.exc
    /\ fase' = "hecho"
    /\ UNCHANGED <<bloques, texto, pasadas, previo, historia, fecha_ingreso, fecha_egreso,
                   formato>>
    /\ UNCHANGED <<varsSesion, varsResumen, varsFecha>>

NextDias == CalcularDiasEstancia

SpecDias == InitDias /\ [][NextDias]_vars

\* The calendar of the sample years, and the whole days from instant a to
\* instant b counted on it: the days D with a <= D < b, one less when the
\* time of day of b is before that of a.
Calendario ==
    {c \in [Y : {2023, 2024}, m : 1..12, d : 1..31] :
        c.d <= (IF c.m = 2 THEN (IF c.Y = 2024 THEN 29 ELSE 28)
                ELSE IF c.m \in {4, 6, 9, 11} THEN 30 ELSE 31)}

Clave(c) == c.Y * 10000 + c.m * 100 + c.d
MinutoDelDia(c) == c.H * 60 + c.M

DiasEnCalendario(a, b) ==
    IF Clave(a) <= Clave(b)
    THEN Cardinality({c \in Calendario : Clave(a) <= Clave(c) /\ Clave(c) < Clave(b)})
    ELSE 0 - Cardinality({c \in Calendario : Clave(b) <= Clave(c) /\ Clave(c) < Clave(a)})

DiasEnteros(a, b) ==
    DiasEnCalendario(a, b) - (IF MinutoDelDia(b) < MinutoDelDia(a) THEN 1 ELSE 0)

Antes(a, b) ==
    \/ Clave(a) < Clave(b)
    \/ Clave(a) = Clave(b) /\ MinutoDelDia(a) < MinutoDelDia(b)

AmbasValidas == EsValida(fecha_ingreso, formato) /\ EsValida(fecha_egreso, formato)

\* C4: the stay is discharge minus admission in whole days, computed from the
\* date and time of both: 2024-01-10 08:00 to 2024-01-15 10:00 is 5 days.
C4_DiasEstancia ==
    fase = "hecho" =>
        /\ AmbasValidas =>
              dias = PyInt(DiasEnteros(Instante(fecha_ingreso, formato),
                                       Instante(fecha_egreso, formato)))
        /\ (formato = FMT_FECHA_HORA /\ fecha_ingreso = FH_10_ENE_0800
              /\ fecha_egreso = FH_15_ENE_1000) => dias = PyInt(5)

C4_Witness ==
    /\ fase = "hecho"
    /\ formato = FMT_FECHA_HORA
    /\ fecha_ingreso = FH_10_ENE_0800
    /\ fecha_egreso = FH_15_ENE_1000
    /\ dias = PyInt(5)

\* C5 as claimed: the computation never raises and yields None whenever a date
\* is unparseable or discharge minus admission is negative.
C5_NegativoEsNone ==
    fase = "hecho" =>
        /\ excepcion = ""
        /\ ~AmbasValidas => dias = PyNone
        /\ (AmbasValidas /\ Antes(Instante(fecha_egreso, formato),
                                  Instante(fecha_ingreso, formato))) => dias = PyNone

\* C5 amended: the computation never raises and yields None exactly when a
\* date is unparseable; a negative difference is returned as an integer.
C5_NuncaLanza ==
    fase = "hecho" =>
        /\ excepcion = ""
        /\ ~AmbasValidas => dias = PyNone
        /\ AmbasValidas => dias.tipo = "int"

C5_Witness ==
    /\ fase = "hecho"
    /\ fecha_ingreso = None
    /\ fecha_egreso = F_29_FEB_23
    /\ dias = PyNone
    /\ excepcion = ""

\* C6: with a discharge earlier than the admission, both parseable, the day
\* difference is still returned, as a negative integer, and nothing is raised.
C6_EgresoAnterior ==
    (fase = "hecho" /\ AmbasValidas
       /\ Antes(Instante(fecha_egreso, formato), Instante(fecha_ingreso, formato))) =>
        /\ excepcion = ""
        /\ dias.tipo = "int"
        /\ dias.v < 0
        /\ dias.v = DiasEnteros(Instante(fecha_ingreso, formato),
                                Instante(fecha_egreso, formato))

C6_Witness ==
    /\ fase = "hecho"
    /\ formato = FMT_FECHA
    /\ fecha_ingreso = F_15_ENE
    /\ fecha_egreso = F_10_ENE
    /\ dias = PyInt(0 - 5)

(***************************************************************************)
(* formatear_fecha called with its default formats.                        *)
(***************************************************************************)
\* "%Y-%m-%d"
FMT_ISO == <<"%", "Y", "-", "%", "m", "-", "%", "d">>

DiasEscritos  == {<<"1">>, <<"0", "1">>, <<"1", "0">>, <<"2", "9">>, <<"3", "1">>, <<"3", "2">>}
MesesEscritos == {<<"1">>, <<"0", "2">>, <<"1", "2">>, <<"1", "3">>}
AniosEscritos ==
    {<<"2", "0", "2", "3">>, <<"2", "0", "2", "4">>, <<"0", "9", "9", "9">>,
     <<"0", "0", "0", "0">>, <<"2", "4">>}

FechasEscritas ==
    {d \o <<sep>> \o m \o <<sep>> \o a :
        d \in DiasEscritos, m \in MesesEscritos, a \in AniosEscritos, sep \in {"/", "-"}}

InitFecha ==
    /\ fecha_str \in FechasEscritas \cup {<<>>, None}
    /\ fecha_formateada = <<>>
    /\ fase = "entrada"
    /\ excepcion = ""
    /\ RegexOcioso
    /\ DiasOcioso
    /\ SesionOciosa
    /\ ResumenOcioso

\* fecha_formateada = formatear_fecha(fecha_str)
FormatearFecha ==
    /\ fase = "entrada"
    /\ \E r \in {formatear_fecha(fecha_str, FMT_FECHA, FMT_ISO)} :
          /\ fecha_formateada' = r.ret
          /\ excepcion' = r.exc
    /\ fase' = "hecho"
    /\ UNCHANGED <<varsRegex, varsDias, varsSesion, varsResumen, fecha_str>>

NextFecha == FormatearFecha

SpecFecha == InitFecha /\ [][NextFecha]_vars

\* C20: formatear_fecha never raises on a date string: an empty or null value
\* gives the empty string, a string that is not a date of the input format is
\* returned as it is, and a date of the input format is returned written in the
\* output format, that is as a string that reads, in the output format, as the
\* same date.
C20_FechaFormateada ==
    fase = "hecho" =>
        /\ excepcion = ""
        /\ fecha_str \in {<<>>, None} => fecha_formateada = <<>>
        /\ fecha_str \notin {<<>>, None} =>
              \E leida \in {Strptime(fecha_str, FMT_FECHA)} :
                 /\ leida.exc # "" => fecha_formateada = fecha_str
                 /\ leida.exc = "" =>
                       \E escrita \in {Strptime(fecha_formateada, FMT_ISO)} :
                          escrita.exc = "" /\ escrita.val = leida.val

(***************************************************************************)
(* calcular_resumen_facturacion called, and called again, on extracted     *)
(* data of a few records.                                                  *)
(***************************************************************************)
MaxRegistros == 2
MaxLlamadas  == 2

\* The sections whose records carry a realizado flag, and all the sections.
Contadas  == {"procedimientos", "medicamentos", "laboratorios", "imagenes"}
Secciones == Contadas \cup {"paciente", "estancias", "diagnosticos"}

\* A stay of the day count d; a stay record without the key.
Estancia(d)   == [dias_estancia |-> d]
EstanciaSinDias == [servicio |-> PyNone]
EstanciasPosibles ==
    {Estancia(PyInt(3)), Estancia(PyInt(0 - 2)), Estancia(PyInt(0)), Estancia(PyNone),
     EstanciaSinDias}

\* A record flagged performed, flagged not performed, and without the flag.
Hecho      == [realizado |-> PyBool(TRUE)]
NoHecho    == [realizado |-> PyBool(FALSE)]
SinBandera == [cantidad |-> PyInt(1)]
RegistrosPosibles == {Hecho, NoHecho, SinBandera}

UnDiagnostico == [codigo |-> PyNone]

\* A record together with the section it stands in.
Items ==
    {<<"estancias", e>> : e \in EstanciasPosibles}
      \cup {<<k, r>> : k \in Contadas, r \in RegistrosPosibles}
      \cup {<<"diagnosticos", UnDiagnostico>>}

Bolsas == UNION {[1..n -> Items] : n \in 0..MaxRegistros}

Segundos(items) == [i \in 1..Len(items) |-> items[i][2]]

\* The records of section k among items, in their order.
RegistrosDe(items, k) == Segundos(SelectSeq(items, LAMBDA it : it[1] = k))

ANA == [nombre |-> "ANA", documento |-> "123"]

\* The shapes of the mapping: ausentes, a section without records is left
\* out; nula, the section whose value is null; paciente, the patient dict.
Formas ==
    {[ausentes |-> a, nula |-> n, paciente |-> pac] :
        a \in BOOLEAN, n \in {"", "paciente", "estancias", "imagenes", "diagnosticos"},
        pac \in {PyDict(EmptyDict), PyDict(ANA)}}

SeccionDe(items, forma, k) ==
    IF k = forma.nula THEN PyNone
    ELSE IF k = "paciente" THEN forma.paciente
    ELSE PyList(RegistrosDe(items, k))

\* The extracted data of the records items, in the shape forma.
DataDe(items, forma) ==
    [k \in {c \in Secciones :
               c = forma.nula \/ ~forma.ausentes \/ Truthy(SeccionDe(items, forma, c))}
       |-> SeccionDe(items, forma, k)]

InitResumen ==
    /\ data \in {DataDe(items, forma) : items \in Bolsas, forma \in Formas}
    /\ resumen = <<>>
    /\ resumen_anterior = <<>>
    /\ n_resumen = 0
    /\ fase = "entrada"
    /\ excepcion = ""
    /\ RegexOcioso
    /\ DiasOcioso
    /\ SesionOciosa
    /\ FechaOciosa

\* resumen = calcular_resumen_facturacion(data)
CalcularResumen ==
    /\ n_resumen < MaxLlamadas
    /\ \E r \in {calcular_resumen_facturacion(data)} :
          /\ resumen' = IF r.exc = "" THEN r.ret ELSE <<>>
          /\ excepcion' = r.exc
          /\ data' = r.data
    /\ resumen_anterior' = resumen
    /\ n_resumen' = n_resumen + 1
    /\ fase' = "hecho"
    /\ UNCHANGED <<varsRegex, varsDias, varsSesion, varsFecha>>

NextResumen == CalcularResumen

SpecResumen == InitResumen /\ [][NextResumen]_vars

\* The call has returned a summary.
Resumido == fase = "hecho" /\ excepcion = ""

\* The records of section k of data, none when the key is missing.
EnData(k) == IF k \in DOMAIN data THEN data[k].v ELSE <<>>

\* The record p carries the flag realizado, and it is true.
Marcado(p) ==
    /\ "realizado" \in DOMAIN p
    /\ p["realizado"].tipo = "bool"
    /\ p["realizado"].v

\* The key of the performed count in the summary of section k.
ClaveHechos(k) == IF k = "medicamentos" THEN "aplicados" ELSE "realizados"

\* C17: for procedimientos, medicamentos, laboratorios and imagenes the
\* summary's total is the number of records of the section and its performed
\* (administered) count the number of those whose realizado flag is true, so
\* that 0 <= performed <= total.
C17_TotalYRealizados ==
    Resumido =>
        \A k \in Contadas :
            /\ resumen[k]["total"] = Len(EnData(k))
            /\ resumen[k][ClaveHechos(k)]
                  = Cardinality({i \in 1..Len(EnData(k)) : Marcado(EnData(k)[i])})
            /\ 0 <= resumen[k][ClaveHechos(k)]
            /\ resumen[k][ClaveHechos(k)] <= resumen[k]["total"]

C17_Witness ==
    /\ Resumido
    /\ "procedimientos" \in DOMAIN data
    /\ data["procedimientos"] = PyList(<<Hecho, NoHecho>>)
    /\ resumen["procedimientos"]["total"] = 2
    /\ resumen["procedimientos"]["realizados"] = 1
    /\ resumen["medicamentos"]["total"] = 0

\* The day count of the stay e, 0 when it is null or missing.
DiasDe(e) ==
    IF "dias_estancia" \in DOMAIN e /\ e["dias_estancia"].tipo = "int"
    THEN e["dias_estancia"].v ELSE 0

\* The sum of the day counts of the first n stays.
RECURSIVE DiasHasta(_, _)
DiasHasta(estancias, n) ==
    IF n = 0 THEN 0 ELSE DiasHasta(estancias, n - 1) + DiasDe(estancias[n])

\* C18: total_dias is the sum of dias_estancia over all the stay records, a
\* null or missing day count counting 0 and a negative one being added as it
\* is; num_estancias is the number of stay records and diagnosticos the
\* number of diagnosis records.
C18_TotalDias ==
    Resumido =>
        /\ resumen["estancias"].total_dias
              = DiasHasta(EnData("estancias"), Len(EnData("estancias")))
        /\ resumen["estancias"].num_estancias = Len(EnData("estancias"))
        /\ resumen["diagnosticos"] = Len(EnData("diagnosticos"))

C18_Witness ==
    /\ Resumido
    /\ "estancias" \in DOMAIN data
    /\ data["estancias"] = PyList(<<Estancia(PyInt(0 - 2)), Estancia(PyNone)>>)
    /\ resumen["estancias"].total_dias = 0 - 2
    /\ resumen["estancias"].num_estancias = 2
    /\ resumen["diagnosticos"] = 0

MaxBloques == 3

\* "CC 123456 -- ANA Fec. Nacimiento: 01/01/1980"
L_PAC ==
    <<"C", "C", SP, "1", "2", "3", "4", "5", "6", SP, "-", "-", SP, "A", "N", "A", SP,
      "F", "e", "c", ".", SP, "N", "a", "c", "i", "m", "i", "e", "n", "t", "o", ":",
      SP, "0", "1", "/", "0", "1", "/", "1", "9", "8", "0">>
\* "SEDE DE ATENCION 001 CLINICA FOLIO 12 FECHA 10/01/2024 08:00:00 TIPO DE ATENCION : URGENCIAS"
L_SERV ==
    <<"S", "E", "D", "E", SP, "D", "E", SP, "A", "T", "E", "N", "C", "I", "O", "N", SP,
      "0", "0", "1", SP, "C", "L", "I", "N", "I", "C", "A", SP, "F", "O", "L", "I",
      "O", SP, "1", "2", SP, "F", "E", "C", "H", "A", SP, "1", "0", "/", "0", "1", "/",
      "2", "0", "2", "4", SP, "0", "8", ":", "0", "0", ":", "0", "0", SP, "T", "I",
      "P", "O", SP, "D", "E", SP, "A", "T", "E", "N", "C", "I", "O", "N", SP, ":", SP,
      "U", "R", "G", "E", "N", "C", "I", "A", "S">>
\* "DX: A09 GASTROENTERITIS"
L_DX ==
    <<"D", "X", ":", SP, "A", "0", "9", SP, "G", "A", "S", "T", "R", "O", "E", "N",
      "T", "E", "R", "I", "T", "I", "S">>
\* "DIAGNOSTICOS: HTA E11"
L_DIAG ==
    <<"D", "I", "A", "G", "N", "O", "S", "T", "I", "C", "O", "S", ":", SP, "H", "T",
      "A", SP, "E", "1", "1">>
\* "2 ACETAMINOFEN 500MG"
L_MED ==
    <<"2", SP, "A", "C", "E", "T", "A", "M", "I", "N", "O", "F", "E", "N", SP, "5",
      "0", "0", "M", "G">>
\* The standard-prescription block: "FORMULA MEDICA", the medication line, "Via: ORAL".
B_FORMULA ==
    <<"F", "O", "R", "M", "U", "L", "A", SP, "M", "E", "D", "I", "C", "A", LF>>
      \o L_MED \o <<LF, "V", "i", "a", ":", SP, "O", "R", "A", "L">>
\* The reconciliation block: "CONCILIACION MEDICAMENTOSA" and the medication line.
B_CONCILIACION ==
    <<"C", "O", "N", "C", "I", "L", "I", "A", "C", "I", "O", "N", SP, "M", "E", "D",
      "I", "C", "A", "M", "E", "N", "T", "O", "S", "A", LF>> \o L_MED

Bloques == {L_PAC, L_SERV, L_DX, L_DIAG, B_FORMULA, B_CONCILIACION}

Documentos == UNION {[1..k -> Bloques] : k \in 0..MaxBloques}

InitHistoria ==
    /\ bloques \in Documentos
    /\ texto \in {Join(<<LF>>, bloques)} \cup (IF bloques = <<>> THEN {None} ELSE {})
    /\ fase = "entrada"
    /\ historia = NoHistoria
    /\ excepcion = ""
    /\ pasadas = 0
    /\ previo = <<>>
    /\ fecha_ingreso = <<>>
    /\ fecha_egreso = <<>>
    /\ formato = <<>>
    /\ dias = PyNone
    /\ SesionOciosa
    /\ ResumenOcioso
    /\ FechaOciosa

\* historia = procesar_historia_regex(texto)
ProcesarHistoria ==
    /\ fase = "entrada"
    /\ \E r \in {procesar_historia_regex(texto)} :
          /\ historia' = r.ret
          /\ excepcion' = r.exc
    /\ fase' = "hecho"
    /\ UNCHANGED <<bloques, texto, pasadas, previo, fecha_ingreso, fecha_egreso, formato, dias>>
    /\ UNCHANGED <<varsSesion, varsResumen, varsFecha>>

NextHistoria == ProcesarHistoria

SpecHistoria == InitHistoria /\ [][NextHistoria]_vars

Veces(b) == Cardinality({i \in 1..Len(bloques) : bloques[i] = b})

\* "123456"
DOC_123456 == <<"1", "2", "3", "4", "5", "6">>
\* "URGENCIAS"
URGENCIAS == <<"U", "R", "G", "E", "N", "C", "I", "A", "S">>
\* "A09"
A09 == <<"A", "0", "9">>
\* "E11"
E11 == <<"E", "1", "1">>
\* "500MG"
DOSIS_500MG == <<"5", "0", "0", "M", "G">>
\* "ORAL"
ORAL == <<"O", "R", "A", "L">>

\* sub in s
Contiene(s, sub) ==
    \E i \in 1..(Len(s) - Len(sub) + 1) : SubSeq(s, i, i + Len(sub) - 1) = sub

\* The call has returned a mapping.
Retorno == fase = "hecho" /\ excepcion = ""

\* C3: in the list of diagnoses the first, in document order, has tipo
\* 'principal' and every later one 'secundario', whatever their codes; a
\* non-empty list holds exactly one 'principal', at index 0.
C3_PrimeroPrincipal ==
    Retorno =>
        LET ds == historia.diagnosticos
        IN  /\ \A i \in 1..Len(ds) :
                 ds[i].tipo = IF i = 1 THEN "principal" ELSE "secundario"
            /\ Len(ds) > 0 => {i \in 1..Len(ds) : ds[i].tipo = "principal"} = {1}

C3_Witness ==
    /\ Retorno
    /\ bloques = <<L_DIAG, L_DX, L_DX>>
    /\ Len(historia.diagnosticos) = 3
    /\ historia.diagnosticos[1].codigo = E11
    /\ historia.diagnosticos[2].codigo = A09
    /\ historia.diagnosticos[1].tipo = "principal"
    /\ historia.diagnosticos[2].tipo = "secundario"
    /\ historia.diagnosticos[3].tipo = "secundario"

\* C7: the result holds one Stay record per extracted service, in the same
\* order, a Stay without a usable admission/discharge pair having a null day
\* count.
C7_UnaEstanciaPorServicio ==
    (Retorno /\ Len(historia.servicios) >= 1) =>
        /\ "estancias" \in DOMAIN historia
        /\ Len(historia["estancias"]) = Len(historia.servicios)
        /\ \A i \in 1..Len(historia.servicios) :
             /\ historia["estancias"][i].fecha_ingreso = historia.servicios[i].fecha_ingreso
             /\ historia.servicios[i].fecha_egreso = None
                   => historia["estancias"][i].dias_estancia = PyNone

\* C8: a text with one medication line "2 ACETAMINOFEN 500MG" followed within
\* five lines by "Via: ORAL" gives exactly one medication record, with cantidad
\* "2", a dosis containing "500MG" and via "ORAL".
C8_UnMedicamento ==
    (Retorno /\ Veces(B_FORMULA) = 1 /\ Veces(B_CONCILIACION) = 0) =>
        /\ Len(historia.medicamentos) = 1
        /\ historia.medicamentos[1].cantidad = <<"2">>
        /\ Contiene(historia.medicamentos[1].dosis, DOSIS_500MG)
        /\ historia.medicamentos[1].via = ORAL

\* C9: a text with one patient block "CC 123456", one service header of
\* attention type URGENCIAS and one diagnosis line "DX: A09 GASTROENTERITIS"
\* gives documento "123456", exactly one service, of tipo_atencion
\* "URGENCIAS", and exactly one diagnosis, of codigo "A09" and tipo 'principal'.
C9_ExtremoAExtremo ==
    (fase = "hecho" /\ Veces(L_PAC) = 1 /\ Veces(L_SERV) = 1 /\ Veces(L_DX) = 1
       /\ Veces(L_DIAG) = 0) =>
        /\ excepcion = ""
        /\ "documento" \in DOMAIN historia.paciente
        /\ historia.paciente["documento"] = DOC_123456
        /\ Len(historia.servicios) = 1
        /\ historia.servicios[1].tipo_atencion = URGENCIAS
        /\ Len(historia.diagnosticos) = 1
        /\ historia.diagnosticos[1].codigo = A09
        /\ historia.diagnosticos[1].tipo = "principal"

C9_Witness ==
    /\ Retorno
    /\ bloques = <<L_PAC, L_SERV, L_DX>>
    /\ historia.paciente["documento"] = DOC_123456
    /\ Len(historia.servicios) = 1
    /\ historia.servicios[1].tipo_atencion = URGENCIAS
    /\ Len(historia.diagnosticos) = 1
    /\ historia.diagnosticos[1].codigo = A09
    /\ historia.diagnosticos[1].tipo = "principal"

\* "GASTROENTERITIS"
GASTROENTERITIS == SubSeq(L_DX, 9, Len(L_DX))

\* The blocks of the document that carry a diagnosis label, in document order.
BloquesDeDiagnostico == SelectSeq(bloques, LAMBDA b : b \in {L_DX, L_DIAG})

\* C16: when the text captured after the diagnosis label starts with an
\* ICD-10-shaped token, codigo is that token and descripcion the rest of the
\* captured text, without the code; a code-shaped token that does not lead
\* the captured text is not taken as the code.
C16_CodigoInicial ==
    (Retorno /\ Len(historia.diagnosticos) = Len(BloquesDeDiagnostico)) =>
        \A i \in 1..Len(BloquesDeDiagnostico) :
            /\ BloquesDeDiagnostico[i] = L_DX =>
                  /\ historia.diagnosticos[i].codigo = A09
                  /\ historia.diagnosticos[i].descripcion = GASTROENTERITIS
            /\ BloquesDeDiagnostico[i] = L_DIAG =>
                  historia.diagnosticos[i].codigo # E11

\* C10: a medication description that stands verbatim in the
\* standard-prescription block and in the reconciliation block of one text
\* gives two separate medication records.
C10_SinDeduplicar ==
    (Retorno /\ Veces(B_FORMULA) = 1 /\ Veces(B_CONCILIACION) = 1) =>
        Len(historia.medicamentos) = 2

(***************************************************************************)
(* procesar_historia_regex called on texts that state the patient's age.   *)
(***************************************************************************)
\* "Edad actual: "
T_EDAD == <<"E", "d", "a", "d", SP, "a", "c", "t", "u", "a", "l", ":", SP>>
\* " AÑOS"
T_ANOS == <<SP, "A", N_TILDE_UP, "O", "S">>

\* n times the digit d
Cifras(d, n) == [i \in 1..n |-> d]

\* What precedes the age in the text.
Prefijos == {<<>>, L_PAC \o <<LF>>, L_SERV \o <<LF>>, L_DX \o <<LF>>}

\* The number of digits of the age: short ones, and the conversion limit of
\* int() with one digit more.
LargosDeEdad == {1, 2, 3, INT_MAX_STR_DIGITS, INT_MAX_STR_DIGITS + 1}

TextosDeEdad ==
    {pre \o T_EDAD \o Cifras(d, n) \o T_ANOS :
        pre \in Prefijos, d \in {"0", "4", "9"}, n \in LargosDeEdad}

InitEdad ==
    /\ texto \in TextosDeEdad
    /\ bloques = <<>>
    /\ fase = "entrada"
    /\ historia = NoHistoria
    /\ excepcion = ""
    /\ pasadas = 0
    /\ previo = <<>>
    /\ fecha_ingreso = <<>>
    /\ fecha_egreso = <<>>
    /\ formato = <<>>
    /\ dias = PyNone
    /\ SesionOciosa
    /\ ResumenOcioso
    /\ FechaOciosa

NextEdad == ProcesarHistoria

SpecEdad == InitEdad /\ [][NextEdad]_vars

ClavesHistoria ==
    {"paciente", "servicios", "diagnosticos", "medicamentos", "procedimientos",
     "cirugias", "laboratorios", "imagenes", "interconsultas", "evoluciones", "altas"}

\* C2: for every input text procesar_historia_regex returns, without raising,
\* a mapping of exactly the eleven keys, paciente a mapping and each of the
\* other ten a sequence.
C2_SiempreRetorna ==
    fase = "hecho" =>
        /\ excepcion = ""
        /\ DOMAIN historia = ClavesHistoria
        /\ \A k \in ClavesHistoria \ {"paciente"} :
             DOMAIN historia[k] = 1..Len(historia[k])

(***************************************************************************)
(* main: one script run after another in one session.  A run starts with   *)
(* what the user has entered in the widgets and goes through main until it *)
(* ends, at st.stop(), at an exception, or at the last statement.          *)
(***************************************************************************)
K1 == <<"k", "1">>
K2 == <<"k", "2">>

\* The keys the service accepts.
ClavesAceptadas == {K1}

\* What the test call of validar_api_key can do with the key k.
Validaciones(k) == IF k \in ClavesAceptadas THEN {"ok", "vacia", "error"} ELSE {"error"}

Motor(exc, paginas) == [exc |-> exc, paginas |-> paginas]

\* A PDF with a text layer, read by both engines.
PDF_A == [name |-> "a.pdf", bytes |-> "A", size_mb |-> 1,
          pdfplumber |-> Motor("", <<<<"a">>>>), pypdf2 |-> Motor("", <<<<"a">>>>)]
\* A PDF read where pdfplumber is not installed.
PDF_B == [name |-> "b.pdf", bytes |-> "B", size_mb |-> 1,
          pdfplumber |-> Motor("ImportError", <<>>), pypdf2 |-> Motor("", << <<"b">>, None >>)]
\* A scanned PDF: one page without text.
PDF_ESCANEADO == [name |-> "c.pdf", bytes |-> "C", size_mb |-> 1,
                  pdfplumber |-> Motor("", <<None>>), pypdf2 |-> Motor("", <<<<>>>>)]
\* A file that is not a PDF.
PDF_ROTO == [name |-> "d.pdf", bytes |-> "D", size_mb |-> 1,
             pdfplumber |-> Motor("Exception", <<>>), pypdf2 |-> Motor("Exception", <<>>)]
\* A PDF over the size limit.
PDF_GRANDE == [name |-> "e.pdf", bytes |-> "E", size_mb |-> MAX_MB_PDF + 1,
               pdfplumber |-> Motor("", <<<<"e">>>>), pypdf2 |-> Motor("", <<<<"e">>>>)]

Archivos == {PDF_A, PDF_B, PDF_ESCANEADO, PDF_ROTO, PDF_GRANDE}

\* No file in the uploader.
SinArchivo == [name |-> "", bytes |-> "", size_mb |-> 0,
               pdfplumber |-> Motor("", <<>>), pypdf2 |-> Motor("", <<>>)]

\* What the user can have entered when a run starts.
Entradas ==
    {[api_key |-> k, archivo_subido |-> a, boton |-> b, debug |-> d] :
        k \in {<<>>, K1, K2}, a \in Archivos \cup {SinArchivo}, b \in BOOLEAN, d \in BOOLEAN}

Responde(cerca, cuerpo) ==
    [configure |-> "", generate |-> "", text |-> "", cerca |-> cerca, cuerpo |-> cuerpo]

\* What the service can do in a call.
ServiciosIA ==
    {[Responde(FALSE, "prosa") EXCEPT !.configure = "Exception"],
     [Responde(FALSE, "prosa") EXCEPT !.generate = "Exception"],
     [Responde(FALSE, "prosa") EXCEPT !.text = "ValueError"]}
      \cup {Responde(c, t) : c \in BOOLEAN, t \in {"objeto", "vacio", "lista", "null", "prosa"}}

\* main's locals at the start of a run, with servicio, what the service did
\* in the run's last call to it, error, the exception that call let out, and
\* motores, the engines extraer_texto_pdf invoked; validadas, the keys that
\* validar_api_key has accepted since the session began.
CorridaNueva ==
    [api_key |-> PyNone, hash_archivo |-> PyNone, texto |-> PyNone, num_paginas |-> 0,
     datos_extraidos |-> PyNone, informe |-> PyNone, resumen |-> PyNone, error |-> "",
     servicio |-> Responde(FALSE, ""), motores |-> <<>>, validadas |-> {}]

InitSesion ==
    /\ session_state = EmptyDict
    /\ secrets \in {EmptyDict, "GEMINI_API_KEY" :> K1}
    /\ widgets \in Entradas
    /\ paso = "inicio"
    /\ corrida = CorridaNueva
    /\ llamadas = <<>>
    /\ fase = "entrada"
    /\ excepcion = ""
    /\ RegexOcioso
    /\ DiasOcioso
    /\ ResumenOcioso
    /\ FechaOciosa

Quietos == <<varsRegex, varsDias, varsResumen, varsFecha, fase, secrets>>

\* The user changes a widget or presses the button: the script runs again.
Interaccion ==
    /\ paso = "espera"
    /\ widgets' \in Entradas
    /\ paso' = "inicio"
    /\ corrida' = [CorridaNueva EXCEPT !.validadas = corrida.validadas]
    /\ llamadas' = <<>>
    /\ excepcion' = ""
    /\ UNCHANGED <<Quietos, session_state>>

\* inicializar_estado_sesion()
InicializarEstadoSesion ==
    /\ paso = "inicio"
    /\ session_state' = inicializar_estado_sesion(session_state)
    /\ paso' = "sidebar"
    /\ UNCHANGED <<Quietos, widgets, corrida, llamadas, excepcion>>

\* api_key = sidebar_configuracion(); if not api_key: st.stop()
SidebarConfiguracion ==
    /\ paso = "sidebar"
    /\ \E validacion \in Validaciones(widgets.api_key) :
         \E r \in {sidebar_configuracion(session_state, secrets, widgets, validacion)} :
            /\ session_state' = r.session
            /\ corrida' = [corrida EXCEPT !.api_key = r.ret,
                                          !.validadas = @ \cup r.validadas]
            /\ paso' = IF Truthy(r.ret) THEN "cargador" ELSE "espera"
    /\ UNCHANGED <<Quietos, widgets, llamadas, excepcion>>

\* The uploader, the size check and the button, up to the hash of the file.
CargarArchivo ==
    /\ paso = "cargador"
    /\ paso' = IF widgets.archivo_subido = SinArchivo THEN "espera"
               ELSE IF widgets.archivo_subido.size_mb > MAX_MB_PDF THEN "espera"
               ELSE IF widgets.boton THEN "texto"
               ELSE "mostrar"
    /\ corrida' = IF paso' = "texto"
                  THEN [corrida EXCEPT !.hash_archivo =
                                          generar_hash_archivo(widgets.archivo_subido.bytes)]
                  ELSE corrida
    /\ UNCHANGED <<Quietos, session_state, widgets, llamadas, excepcion>>

\* texto, num_paginas = extraer_texto_pdf(archivo_subido); if texto is None: st.stop()
ExtraerTextoPdf ==
    /\ paso = "texto"
    /\ \E r \in {extraer_texto_pdf(widgets.archivo_subido)} :
          /\ corrida' = [corrida EXCEPT !.texto = r.texto, !.num_paginas = r.paginas,
                                        !.motores = r.motores]
          /\ paso' = IF r.texto = PyNone THEN "espera" ELSE "ia"
    /\ llamadas' = Append(llamadas, "extraer_texto_pdf")
    /\ UNCHANGED <<Quietos, session_state, widgets, excepcion>>

\* datos_extraidos = extract_with_gemini(texto, api_key);
\* if datos_extraidos is None: st.stop()
ExtractWithGemini ==
    /\ paso = "ia"
    /\ \E servicio \in ServiciosIA :
         \E r \in {extract_with_gemini(corrida.texto.v, servicio)} :
            /\ corrida' = [corrida EXCEPT !.datos_extraidos = r.ret, !.error = r.exc,
                                          !.servicio = servicio]
            /\ excepcion' = r.exc
            /\ paso' = IF r.exc # "" \/ r.ret = PyNone THEN "espera" ELSE "guardar"
    /\ llamadas' = Append(llamadas, "extract_with_gemini")
    /\ UNCHANGED <<Quietos, session_state, widgets>>

\* The processing ends without keeping the hash of the file.
Guardado_SinHash(ss, c) ==
    Set(Set(Set(ss, "datos_extraidos", c.datos_extraidos), "texto_crudo", c.texto),
        "procesado", PyBool(TRUE))

\* The four assignments to st.session_state that end the processing.
Guardado(ss, c) ==
    Set(Set(Set(Set(ss, "datos_extraidos", c.datos_extraidos),
                "texto_crudo", c.texto),
            "hash_archivo", c.hash_archivo),
        "procesado", PyBool(TRUE))

GuardarEnSesion ==
    /\ paso = "guardar"
    /\ session_state' = Guardado(session_state, corrida)
    /\ paso' = "mostrar"
    /\ UNCHANGED <<Quietos, widgets, corrida, llamadas, excepcion>>

\* if st.session_state.procesado and st.session_state.datos_extraidos:
\* the tabs that show the data.
MostrarResultados ==
    /\ paso = "mostrar"
    /\ paso' = IF session_state["procesado"].v /\ Truthy(session_state["datos_extraidos"])
               THEN "informe" ELSE "espera"
    /\ UNCHANGED <<Quietos, session_state, widgets, corrida, llamadas, excepcion>>

\* A failed report call that also discards the extracted data.
ConInforme_Descarta(ss, informe) ==
    IF informe.exc # "" \/ informe.ret.v[1] # "informe"
    THEN Set(Set(ss, "procesado", PyBool(FALSE)), "datos_extraidos", PyNone)
    ELSE Set(ss, "informe_facturacion", informe.ret)

\* The session state after the report informe was made in the analysis tab.
ConInforme(ss, informe) ==
    IF informe.exc # "" THEN ss ELSE Set(ss, "informe_facturacion", informe.ret)

\* The analysis tab: the report is generated if the session holds none.
InformeFacturacion ==
    /\ paso = "informe"
    /\ IF "informe_facturacion" \notin DOMAIN session_state
       THEN \E servicio \in ServiciosIA :
              \E r \in {analyze_billing_with_gemini(session_state["datos_extraidos"], servicio)} :
                 /\ session_state' = ConInforme(session_state, r)
                 /\ corrida' = [corrida EXCEPT !.informe = r.ret, !.error = r.exc,
                                               !.servicio = servicio]
                 /\ excepcion' = r.exc
                 /\ paso' = IF r.exc # "" THEN "espera" ELSE "resumen"
                 /\ llamadas' = Append(llamadas, "analyze_billing_with_gemini")
       ELSE /\ corrida' = [corrida EXCEPT !.informe = session_state["informe_facturacion"]]
            /\ paso' = "resumen"
            /\ UNCHANGED <<session_state, llamadas, excepcion>>
    /\ UNCHANGED <<Quietos, widgets>>

\* resumen = calcular_resumen_facturacion(datos), datos being the object
\* st.session_state.datos_extraidos; then the export buttons.
ResumenCuantitativo ==
    /\ paso = "resumen"
    /\ \E r \in {calcular_resumen_facturacion(session_state["datos_extraidos"].v)} :
          /\ corrida' = [corrida EXCEPT !.resumen = PyDict(r.ret), !.error = r.exc]
          /\ excepcion' = r.exc
          /\ session_state' = Set(session_state, "datos_extraidos", PyDict(r.data))
    /\ paso' = "espera"
    /\ UNCHANGED <<Quietos, widgets, llamadas>>

NextSesion ==
    \/ Interaccion
    \/ InicializarEstadoSesion
    \/ SidebarConfiguracion
    \/ CargarArchivo
    \/ ExtraerTextoPdf
    \/ ExtractWithGemini
    \/ GuardarEnSesion
    \/ MostrarResultados
    \/ InformeFacturacion
    \/ ResumenCuantitativo

SpecSesion == InitSesion /\ [][NextSesion]_vars

\* main has called f in the current run.
Llamo(f) == \E i \in 1..Len(llamadas) : llamadas[i] = f

\* The last collaborator main has called in the current run.
UltimaLlamada == IF llamadas = <<>> THEN "" ELSE llamadas[Len(llamadas)]

\* The results of the processing that the session keeps.
Almacenados ==
    [k \in {"datos_extraidos", "texto_crudo", "hash_archivo", "procesado"} |-> session_state[k]]

\* The text extraction of the current run gave no text.
FalloDeTexto == Llamo("extraer_texto_pdf") /\ ~Truthy(corrida.texto)

\* C11: when the text extraction of a run gives no text, extract_with_gemini
\* is not called in that run, and the results the session keeps stay as
\* they were.
C11_SinTextoSinExtraccion ==
    /\ [](FalloDeTexto => ~Llamo("extract_with_gemini"))
    /\ [][(FalloDeTexto \/ FalloDeTexto') => Almacenados' = Almacenados]_vars

C11_Witness ==
    /\ FalloDeTexto
    /\ paso = "espera"
    /\ widgets.archivo_subido = PDF_ESCANEADO
    /\ llamadas = <<"extraer_texto_pdf">>
    /\ session_state["procesado"] = PyBool(TRUE)
    /\ session_state["hash_archivo"] = generar_hash_archivo(PDF_A.bytes)

\* The service failed in the call: the client could not be configured, the
\* generation call or the reading of its text raised, or the answer is not JSON.
FallaDelServicio(servicio) ==
    \/ servicio.configure # ""
    \/ servicio.generate # ""
    \/ servicio.text # ""
    \/ JsonLoads(Contenido(servicio), <<>>).exc # ""

\* C12: every failure of the service during the extraction reaches the
\* caller of extract_with_gemini as the value None, never as an exception.
C12_FallaEsNone ==
    UltimaLlamada = "extract_with_gemini" =>
        /\ excepcion = ""
        /\ FallaDelServicio(corrida.servicio) => corrida.datos_extraidos = PyNone

\* The step is a call of analyze_billing_with_gemini in which the service fails.
FallaDeInforme ==
    /\ paso = "informe"
    /\ Len(llamadas') > Len(llamadas)
    /\ \/ corrida'.servicio.configure # ""
       \/ corrida'.servicio.generate # ""
       \/ corrida'.servicio.text # ""

\* C13: a failed call of analyze_billing_with_gemini leaves datos_extraidos,
\* texto_crudo, hash_archivo and procesado of the session as they were
\* before the call.
C13_InformeFallidoNoToca == [][FallaDeInforme => Almacenados' = Almacenados]_vars

\* The report call has failed with an error text, the extracted data in place.
C13_Witness ==
    /\ paso = "resumen"
    /\ UltimaLlamada = "analyze_billing_with_gemini"
    /\ corrida.servicio.generate = "Exception"
    /\ session_state["informe_facturacion"] = InformeDeError("Exception")
    /\ session_state["procesado"] = PyBool(TRUE)
    /\ session_state["datos_extraidos"] = DatosDe(<<"a">>)
    /\ session_state["hash_archivo"] = generar_hash_archivo(PDF_A.bytes)

\* main is showing, or offering for export, the results the session keeps.
Mostrando == paso \in {"informe", "resumen"}

\* C22: whenever main shows or exports results for the uploaded file, the
\* hash_archivo the session keeps is the hash of that file: the results
\* were extracted from it.
C22_ResultadosDelArchivo ==
    Mostrando =>
        session_state["hash_archivo"] = generar_hash_archivo(widgets.archivo_subido.bytes)

\* The report in hand is a generated report, not the text of an error.
EsInforme(informe) == informe.tipo = "str" /\ informe.v[1] = "informe"

\* C23: the billing report that main shows and offers for download was
\* generated from the data now in session_state.datos_extraidos: a report
\* that the current run did not generate is the report of those data.
C23_InformeDeLosDatos ==
    (paso = "resumen" /\ ~Llamo("analyze_billing_with_gemini") /\ EsInforme(corrida.informe))
        => corrida.informe = InformeDe(session_state["datos_extraidos"])

\* The key comes from the text input, and validar_api_key has accepted it
\* in the session.
ClaveYaValidada ==
    /\ "GEMINI_API_KEY" \notin DOMAIN secrets
    /\ widgets.api_key \in corrida.validadas

\* C24: without a key in the secrets, a key that has passed the validation
\* in the session is returned by sidebar_configuracion every time it is
\* entered again, whatever keys were entered and rejected in between.
C24_ClaveValidadaAceptada ==
    [][(paso = "sidebar" /\ ClaveYaValidada) => corrida'.api_key = PyStr(widgets.api_key)]_vars

\* The steps of main after `if not api_key: st.stop()`.
PasosConClave == {"cargador", "texto", "ia", "guardar", "mostrar", "informe", "resumen"}

\* C25: without a key in the secrets, sidebar_configuracion returns a key
\* only if it is the key entered and validar_api_key has accepted that key
\* in this step or an earlier one; with an empty key or a key never
\* accepted it returns None, and main stops before the uploader and every
\* processing step.
C25_SoloClaveValidada ==
    "GEMINI_API_KEY" \notin DOMAIN secrets =>
        /\ corrida.api_key # PyNone =>
              /\ corrida.api_key = PyStr(widgets.api_key)
              /\ widgets.api_key \in corrida.validadas
        /\ widgets.api_key \notin corrida.validadas =>
              /\ corrida.api_key = PyNone
              /\ paso \notin PasosConClave
              /\ llamadas = <<>>

\* The key was accepted, another was rejected, and main has stopped at the
\* sidebar with the rejected key in the input.
C25_Witness ==
    /\ "GEMINI_API_KEY" \notin DOMAIN secrets
    /\ corrida.validadas = {K1}
    /\ widgets.api_key = K2
    /\ paso = "espera"
    /\ corrida.api_key = PyNone
    /\ session_state["api_key_valida"] = PyBool(FALSE)
    /\ session_state["api_key_ingresada"] = PyStr(K1)

\* The session state has been initialised.
Inicializada == "procesado" \in DOMAIN session_state

\* What a run that has extracted text and data writes to the session.
DeLaCorrida ==
    [datos_extraidos |-> corrida.datos_extraidos, texto_crudo |-> corrida.texto,
     hash_archivo |-> corrida.hash_archivo, procesado |-> PyBool(TRUE)]

\* The current run has failed at the text extraction or at the AI extraction.
CorridaFallida ==
    \/ FalloDeTexto
    \/ UltimaLlamada = "extract_with_gemini" /\ (excepcion # "" \/ corrida.datos_extraidos = PyNone)

\* C26: procesado is true only if datos_extraidos, texto_crudo and
\* hash_archivo are all non-null, the hash being that of a file whose text
\* is texto_crudo; the four values change only together, at the end of a
\* run that extracted text and data, to the values of that run; a run that
\* fails at either extraction changes none of them.
C26_ProcesadoCompleto ==
    /\ []((Inicializada /\ session_state["procesado"].v) =>
            /\ session_state["datos_extraidos"] # PyNone
            /\ session_state["texto_crudo"] # PyNone
            /\ session_state["hash_archivo"] # PyNone
            /\ \E a \in Archivos :
                  /\ session_state["hash_archivo"] = generar_hash_archivo(a.bytes)
                  /\ session_state["texto_crudo"] = extraer_texto_pdf(a).texto)
    /\ [][(Inicializada /\ Almacenados' # Almacenados) =>
              /\ paso = "guardar"
              /\ ~CorridaFallida
              /\ Almacenados' = DeLaCorrida]_vars
    /\ [][(Inicializada /\ (CorridaFallida \/ CorridaFallida')) =>
              Almacenados' = Almacenados]_vars

\* A run on a.pdf has failed at the AI extraction, and the session keeps
\* the four values that the run on b.pdf wrote.
C26_Witness ==
    /\ paso = "espera"
    /\ widgets.archivo_subido = PDF_A
    /\ UltimaLlamada = "extract_with_gemini"
    /\ corrida.datos_extraidos = PyNone
    /\ session_state["procesado"] = PyBool(TRUE)
    /\ session_state["hash_archivo"] = generar_hash_archivo(PDF_B.bytes)
    /\ session_state["texto_crudo"] = extraer_texto_pdf(PDF_B).texto
    /\ session_state["datos_extraidos"] = DatosDe(extraer_texto_pdf(PDF_B).texto.v)

\* C27: calcular_resumen_facturacion returns a summary, raising nothing, for
\* every mapping of extracted data in which a section is missing, empty or
\* null.
C27_ResumenSinExcepcion == fase = "hecho" => (excepcion = "" /\ resumen # <<>>)

(***************************************************************************)
(* extraer_texto_pdf on files of every combination of what the two engines *)
(* do: main, at its step 1, with the file in the uploader.                 *)
(***************************************************************************)
MaxPaginasDeMuestra == 2

\* What an engine can do with a file: fail, read a few pages with or without
\* text, or read one page more than MAX_PAGINAS.
Motores ==
    {Motor("ImportError", <<>>), Motor("Exception", <<>>),
     Motor("", [i \in 1..(MAX_PAGINAS + 1) |-> <<"a">>])}
      \cup {Motor("", pags) :
              pags \in UNION {[1..n -> {None, <<>>, <<"a">>}] : n \in 0..MaxPaginasDeMuestra}}

ArchivosDeMuestra ==
    {[name |-> "m.pdf", bytes |-> "M", size_mb |-> 1, pdfplumber |-> p, pypdf2 |-> q] :
        p \in Motores, q \in Motores}

\* main has reached step 1 of the processing of the uploaded file.
InitPdf ==
    /\ secrets = "GEMINI_API_KEY" :> K1
    /\ session_state = inicializar_estado_sesion(EmptyDict)
    /\ widgets \in {[api_key |-> <<>>, archivo_subido |-> a, boton |-> TRUE, debug |-> FALSE] :
                       a \in ArchivosDeMuestra}
    /\ paso = "texto"
    /\ corrida = [CorridaNueva EXCEPT !.api_key = PyStr(K1),
                                      !.hash_archivo = generar_hash_archivo("M")]
    /\ llamadas = <<>>
    /\ fase = "entrada"
    /\ excepcion = ""
    /\ RegexOcioso
    /\ DiasOcioso
    /\ ResumenOcioso
    /\ FechaOciosa

NextPdf == ExtraerTextoPdf

SpecPdf == InitPdf /\ [][NextPdf]_vars

\* The first engine, the second, gave a non-empty text for the uploaded file.
ConTextoPlumber == Truthy(extraer_texto_pdf_pdfplumber(widgets.archivo_subido).texto)
ConTextoPyPDF2  == Truthy(extraer_texto_pdf_pypdf2(widgets.archivo_subido).texto)

\* What extraer_texto_pdf returned.
Devuelto == [texto |-> corrida.texto, paginas |-> corrida.num_paginas]

\* C21: extraer_texto_pdf invokes pdfplumber first and PyPDF2 only when
\* pdfplumber gave no text; it returns the text and page count of the first
\* engine that gave a non-empty text, and (None, 0) exactly when neither
\* did; a returned text is never empty and a returned page count never
\* exceeds MAX_PAGINAS.
C21_OrdenDeMotores ==
    Llamo("extraer_texto_pdf") =>
        /\ corrida.motores[1] = "pdfplumber"
        /\ Len(corrida.motores) = (IF ConTextoPlumber THEN 1 ELSE 2)
        /\ Len(corrida.motores) = 2 => corrida.motores[2] = "PyPDF2"
        /\ ConTextoPlumber => Devuelto = extraer_texto_pdf_pdfplumber(widgets.archivo_subido)
        /\ (~ConTextoPlumber /\ ConTextoPyPDF2)
              => Devuelto = extraer_texto_pdf_pypdf2(widgets.archivo_subido)
        /\ (Devuelto = SinTexto) <=> (~ConTextoPlumber /\ ~ConTextoPyPDF2)
        /\ corrida.texto # PyNone => (corrida.texto.tipo = "str" /\ Len(corrida.texto.v) > 0)
        /\ corrida.num_paginas <= MAX_PAGINAS

\* pdfplumber gave no text for a one-page file and PyPDF2 read the first MAX_PAGINAS pages of a
\* longer file.
C21_Witness ==
    /\ Llamo("extraer_texto_pdf")
    /\ widgets.archivo_subido.pdfplumber = Motor("", <<None>>)
    /\ Len(widgets.archivo_subido.pypdf2.paginas) = MAX_PAGINAS + 1
    /\ corrida.motores = <<"pdfplumber", "PyPDF2">>
    /\ corrida.num_paginas = MAX_PAGINAS
    /\ Len(corrida.texto.v) = 2 * MAX_PAGINAS

====
